---- MODULE Spec2Model ----
(***************************************************************************)
(* Sales analysis pipeline of st_analysis_local/api/analyze.py:            *)
(* catalog load -> reverse index -> categorize_by_company ->               *)
(* calculate_advanced_metrics -> generate_company_analysis -> result.      *)
(*                                                                         *)
(* Numbers are pandas float64 cells.  A cell is a pair <<n, d>>: the exact *)
(* rational n/d when d > 0, +inf = <<1,0>>, -inf = <<-1,0>>, NaN = <<0,0>>.*)
(* Binary rounding error of float64 is not modelled; division by zero, NaN *)
(* propagation and the decimal round(2) are.                               *)
(* Product names are sequences of characters (one-character strings, the   *)
(* body of a name being abbreviated to one token) so that str.strip() is   *)
(* an operation and not the identity.                                      *)
(***************************************************************************)
EXTENDS Integers, Sequences, FiniteSets, TLC

VARIABLES
    COMPANY_PRODUCTS,    \* analyze.py:67, the catalog: the items of the dict, in insertion order
    PRODUCT_TO_COMPANY,  \* analyze.py:68-71, the reverse index
    json_data,           \* analyze.py:256, the batch analyze_data is called with
    df,                  \* analyze.py:260-284, the DataFrame of analyze_data when it returns
    company_summary,     \* analyze.py:287, the Company Summary (<<>> when none is made)
    result,              \* analyze.py:273-313, what analyze_data returns
    top_n,               \* local_analyzer.py:235, stock_analyzer.py:224, the n of the top-n lists
    pc,                  \* "loaded" after the import of the module, "done" after analyze_data
    catalog_files,       \* analyze.py:42, the catalog files in the order os.listdir lists them
    sort_ties,           \* the order in which the sorts of the last run visited rows of equal key
    previous,            \* the Company Summary and the result of the run before the last one
    request,             \* analyze.py:316, the request the handler was last called with
    response,            \* analyze.py:319-410, what the handler returned for it
    calls                \* the number of requests the handler has served

vars == <<COMPANY_PRODUCTS, PRODUCT_TO_COMPANY, json_data, df, company_summary, result, top_n, pc,
          catalog_files, sort_ties, previous, request, response, calls>>

\* ------------------------------------------------------------------------
\* Bounds of the model
\* ------------------------------------------------------------------------
MaxRows == 2

\* ------------------------------------------------------------------------
\* float64 arithmetic (IEEE special values, exact rationals otherwise)
\* ------------------------------------------------------------------------
NaN == <<0, 0>>
Inf == <<1, 0>>
F(i) == <<i, 1>>

Abs(i) == IF i < 0 THEN -i ELSE i
Sign(i) == IF i < 0 THEN -1 ELSE IF i > 0 THEN 1 ELSE 0

RECURSIVE GCD(_, _)
GCD(a, b) == IF b = 0 THEN a ELSE GCD(b, a % b)

Norm(n, d) ==
    IF d = 0 THEN <<Sign(n), 0>>
    ELSE LET s == IF d < 0 THEN -1 ELSE 1
             g == GCD(Abs(n), Abs(d))
         IN <<(s * n) \div g, (s * d) \div g>>

IsNaN(a) == a = NaN
IsInf(a) == a[2] = 0 /\ a[1] # 0
IsFinite(a) == a[2] > 0

FNeg(a) == <<-a[1], a[2]>>

FAdd(a, b) ==
    IF IsNaN(a) \/ IsNaN(b) THEN NaN
    ELSE IF IsInf(a) THEN (IF IsInf(b) /\ b # a THEN NaN ELSE a)
    ELSE IF IsInf(b) THEN b
    ELSE Norm(a[1] * b[2] + b[1] * a[2], a[2] * b[2])

FSub(a, b) == FAdd(a, FNeg(b))

FMul(a, b) ==
    IF IsNaN(a) \/ IsNaN(b) THEN NaN
    ELSE Norm(a[1] * b[1], a[2] * b[2])

FDiv(a, b) ==
    IF IsNaN(a) \/ IsNaN(b) THEN NaN
    ELSE IF b[1] < 0 THEN Norm(-(a[1] * b[2]), -(a[2] * b[1]))
    ELSE Norm(a[1] * b[2], a[2] * b[1])

\* a < b, a <= b, a = b as float comparisons (every comparison with NaN is false)
FLt(a, b) == ~IsNaN(a) /\ ~IsNaN(b) /\ a # b /\
             (IF IsInf(a) THEN a[1] < 0 ELSE IF IsInf(b) THEN b[1] > 0
              ELSE a[1] * b[2] < b[1] * a[2])
FEq(a, b) == ~IsNaN(a) /\ ~IsNaN(b) /\ a = b
FLeq(a, b) == FLt(a, b) \/ FEq(a, b)

\* round half to even of p/q to an integer (q > 0)
RoundHalfEven(p, q) ==
    LET fl == p \div q
        rem == p - fl * q
    IN IF 2 * rem < q THEN fl
       ELSE IF 2 * rem > q THEN fl + 1
       ELSE IF fl % 2 = 0 THEN fl ELSE fl + 1

\* Series.round(2) / DataFrame.round(2) on one cell
Round2(a) == IF ~IsFinite(a) THEN a ELSE Norm(RoundHalfEven(a[1] * 100, a[2]), 100)

\* int(x) for a finite x: truncation toward zero
Trunc(a) == Sign(a[1]) * (Abs(a[1]) \div a[2])

\* ------------------------------------------------------------------------
\* Sequence helpers
\* ------------------------------------------------------------------------
Range(s) == {s[i] : i \in 1..Len(s)}

RECURSIVE FSum(_)
FSum(s) == IF s = <<>> THEN F(0) ELSE FAdd(s[1], FSum(Tail(s)))

SeqsUpTo(S, n) == UNION {[1..k -> S] : k \in 0..n}


\* a column added to (or overwritten in) one row of a DataFrame
WithCol(r, c, v) == [x \in (DOMAIN r) \cup {c} |-> IF x = c THEN v ELSE r[x]]

\* df[c] = values, row by row; a new column is appended to df.columns
SetColumn(d, c, values) ==
    [columns |-> IF c \in Range(d.columns) THEN d.columns ELSE Append(d.columns, c),
     rows |-> [i \in 1..Len(d.rows) |-> WithCol(d.rows[i], c, values[i])]]

Column(d, c) == [i \in 1..Len(d.rows) |-> d.rows[i][c]]

\* ------------------------------------------------------------------------
\* Strings: a product name is a sequence of characters
\* ------------------------------------------------------------------------
Whitespace == {" ", "\t"}

RECURSIVE lstrip(_)
lstrip(s) == IF s # <<>> /\ s[1] \in Whitespace THEN lstrip(Tail(s)) ELSE s

RECURSIVE rstrip(_)
rstrip(s) == IF s # <<>> /\ s[Len(s)] \in Whitespace
             THEN rstrip(SubSeq(s, 1, Len(s) - 1)) ELSE s

\* str.strip()
strip(s) == rstrip(lstrip(s))

Agas == <<"Agas 250gms">>
Amistar == <<"Amistar 1 Lt">>
Unlisted == <<"Zyx 100ml">>
\* a catalog name as a data-entry system pads it
AgasPadded == <<" ">> \o Agas

\* ------------------------------------------------------------------------
\* Reference catalog: the CSV files of the "Company Wise Products" folder, in
\* the order os.listdir returns them
\* ------------------------------------------------------------------------
AdamaFile == [csv_file |-> "Adama_Products.csv",
              cells |-> <<<<" ">> \o Agas \o <<" ">>, <<" ">>>>]
SairamFile == [csv_file |-> "Sairam_Products.csv", cells |-> <<Amistar>>]
SyngentaFile == [csv_file |-> "Syngenta_Product_Names.csv", cells |-> <<Amistar \o <<" ">>>>]

CatalogSources ==
    { <<>>,
      <<AdamaFile, SairamFile, SyngentaFile>>,
      <<SyngentaFile, AdamaFile, SairamFile>> }

\* csv_file.replace('_Products.csv', '').replace('_Product_Names.csv', '').replace('_', ' ')
company_name(csv_file) ==
    CASE csv_file = "Adama_Products.csv" -> "Adama"
      [] csv_file = "Sairam_Products.csv" -> "Sairam"
      [] csv_file = "Syngenta_Product_Names.csv" -> "Syngenta"

\* [p for p in df['Product Name'].dropna().str.strip().tolist() if p]
RECURSIVE products_of(_)
products_of(cells) ==
    IF cells = <<>> THEN <<>>
    ELSE LET p == strip(cells[1])
         IN (IF p # <<>> THEN <<p>> ELSE <<>>) \o products_of(Tail(cells))

\* the dict company_products, as its items in insertion order
load_company_products_from_csv(csv_files) ==
    [i \in 1..Len(csv_files) |->
        [company |-> company_name(csv_files[i].csv_file),
         products |-> products_of(csv_files[i].cells)]]

\* PRODUCT_TO_COMPANY.setdefault(product, company): the first company of a name kept
DictSetDefault(idx, k, v) ==
    [x \in (DOMAIN idx) \cup {k} |-> IF x \in DOMAIN idx THEN idx[x] ELSE v]

\* PRODUCT_TO_COMPANY[product] = company
DictPut(idx, k, v) == [x \in (DOMAIN idx) \cup {k} |-> IF x = k THEN v ELSE idx[x]]

RECURSIVE PutProducts(_, _, _)
PutProducts(idx, products, company) ==
    IF products = <<>> THEN idx
    ELSE PutProducts(DictPut(idx, products[1], company), Tail(products), company)

RECURSIVE BuildIndex(_, _)
BuildIndex(idx, items) ==
    IF items = <<>> THEN idx
    ELSE BuildIndex(PutProducts(idx, items[1].products, items[1].company), Tail(items))

EmptyDict == [x \in {} |-> "Other"]

reverse_index(company_products) == BuildIndex(EmptyDict, company_products)

\* the classifier with the unmatched names filled from the row above (ffill)
\* before the 'Other' default
RECURSIVE ffill_company(_, _, _)
ffill_company(rows, index, last) ==
    IF rows = <<>> THEN <<>>
    ELSE LET c == IF rows[1]["ITNAME"] \in DOMAIN index THEN index[rows[1]["ITNAME"]] ELSE last
         IN <<c>> \o ffill_company(Tail(rows), index, c)

categorize_by_company_ffill(d, index) ==
    SetColumn(d, "COMPANY", ffill_company(d.rows, index, "Other"))

\* df['COMPANY'] = df['ITNAME'].map(PRODUCT_TO_COMPANY).fillna('Other')
categorize_by_company(d, index) ==
    SetColumn(d, "COMPANY",
        [i \in 1..Len(d.rows) |->
            IF d.rows[i]["ITNAME"] \in DOMAIN index
            THEN index[d.rows[i]["ITNAME"]] ELSE "Other"])

\* ------------------------------------------------------------------------
\* Metric derivation
\* ------------------------------------------------------------------------
\* Series.min() / Series.max() of a non-empty column of finite values
SeriesMin(col) == CHOOSE v \in Range(col) : \A w \in Range(col) : FLeq(v, w)
SeriesMax(col) == CHOOSE v \in Range(col) : \A w \in Range(col) : FLeq(w, v)

\* rank(pct=True) with method='max': the highest rank of a tied group
rank_pct_max(col) ==
    [i \in 1..Len(col) |->
        FDiv(F(Cardinality({j \in 1..Len(col) : FLeq(col[j], col[i])})), F(Len(col)))]

\* rank(pct=True) with method='first': tied rows ranked in row order
rank_pct_first(col) ==
    [i \in 1..Len(col) |->
        FDiv(F(Cardinality({j \in 1..Len(col) :
                               FLt(col[j], col[i]) \/ (FEq(col[j], col[i]) /\ j <= i)})),
             F(Len(col)))]

\* Series.rank(pct=True): method='average' (the default), divided by the count
rank_pct(col) ==
    [i \in 1..Len(col) |->
        LET less == Cardinality({j \in 1..Len(col) : FLt(col[j], col[i])})
            same == Cardinality({j \in 1..Len(col) : FEq(col[j], col[i])})
        IN \* average of the ranks less+1 .. less+same, over the number of rows
           FDiv(Norm(2 * less + same + 1, 2), F(Len(col)))]

\* (s - s.min()) / (s.max() - s.min())
min_max_norm(col) ==
    [i \in 1..Len(col) |->
        FDiv(FSub(col[i], SeriesMin(col)), FSub(SeriesMax(col), SeriesMin(col)))]

\* the tax taken out of an amount read as tax-inclusive
gst_amount_inclusive(amount, rate) == FDiv(FMul(amount, rate), FAdd(F(100), rate))

\* df['TAXBLEAMT'] * df['GST'] / 100
gst_amount(amount, rate) == FDiv(FMul(amount, rate), F(100))

calculate_advanced_metrics(d) ==
    LET n == Len(d.rows)
        d1 == SetColumn(d, "PRICE_PER_UNIT",
                  [i \in 1..n |-> FDiv(d.rows[i]["TAXBLEAMT"], d.rows[i]["QTY"])])
        d2 == SetColumn(d1, "GST_AMOUNT",
                  [i \in 1..n |-> gst_amount(d.rows[i]["TAXBLEAMT"], d.rows[i]["GST"])])
        d3 == SetColumn(d2, "TOTAL_WITH_GST",
                  [i \in 1..n |-> FAdd(d2.rows[i]["TAXBLEAMT"], d2.rows[i]["GST_AMOUNT"])])
        rp == rank_pct(Column(d, "TAXBLEAMT"))
        d4 == SetColumn(d3, "REVENUE_PERCENTILE", [i \in 1..n |-> FMul(rp[i], F(100))])
        qp == rank_pct(Column(d, "QTY"))
        d5 == SetColumn(d4, "QTY_PERCENTILE", [i \in 1..n |-> FMul(qp[i], F(100))])
        revenue_norm == min_max_norm(Column(d, "TAXBLEAMT"))
        qty_norm == min_max_norm(Column(d, "QTY"))
    IN SetColumn(d5, "PERFORMANCE_SCORE",
           [i \in 1..n |->
               FMul(FAdd(FMul(revenue_norm[i], Norm(6, 10)), FMul(qty_norm[i], Norm(4, 10))),
                    F(100))])

\* ------------------------------------------------------------------------
\* Aggregation
\* ------------------------------------------------------------------------
\* the order of str on the company names that occur (groupby sorts its keys)
CompanyOrder == <<"Adama", "Other", "Sairam", "Syngenta">>

\* a grouping that keeps one row of a product name only (duplicates dropped)
RECURSIVE group_of_unique(_, _)
group_of_unique(rows, c) ==
    IF rows = <<>> THEN <<>>
    ELSE LET rest == group_of_unique(Tail(rows), c)
         IN IF rows[1]["COMPANY"] = c /\ \A k \in 1..Len(rest) : rest[k]["ITNAME"] # rows[1]["ITNAME"]
            THEN <<rows[1]>> \o rest ELSE rest

\* the rows of one group of df.groupby('COMPANY'), in row order
RECURSIVE group_of(_, _)
group_of(rows, c) ==
    IF rows = <<>> THEN <<>>
    ELSE (IF rows[1]["COMPANY"] = c THEN <<rows[1]>> ELSE <<>>) \o group_of(Tail(rows), c)

\* Series.mean(): NaN cells are skipped; NaN when nothing is left
SeriesMean(col) ==
    LET kept == SelectSeq(col, LAMBDA v : ~IsNaN(v))
    IN IF kept = <<>> THEN NaN ELSE FDiv(FSum(kept), F(Len(kept)))

\* one row of df.groupby('COMPANY').agg({...}).round(2), columns renamed
group_row(c, g) ==
    LET col(name) == [i \in 1..Len(g) |-> g[i][name]]
    IN [COMPANY |-> c,
        Product_Count |-> Len(g),
        Total_Quantity |-> Round2(FSum(col("QTY"))),
        Avg_Quantity |-> Round2(SeriesMean(col("QTY"))),
        Total_Revenue |-> Round2(FSum(col("TAXBLEAMT"))),
        Avg_Revenue |-> Round2(SeriesMean(col("TAXBLEAMT"))),
        Total_GST |-> Round2(FSum(col("GST_AMOUNT"))),
        Total_With_GST |-> Round2(FSum(col("TOTAL_WITH_GST"))),
        Avg_Price_Per_Unit |-> Round2(SeriesMean(col("PRICE_PER_UNIT")))]

\* a grouping over every known company (a categorical key, observed=False):
\* a company without rows gets a row of its own
RECURSIVE group_rows_all(_, _)
group_rows_all(rows, companies) ==
    IF companies = <<>> THEN <<>>
    ELSE <<group_row(companies[1], group_of(rows, companies[1]))>>
         \o group_rows_all(rows, Tail(companies))

\* the groups of df.groupby('COMPANY'), keys ascending, empty groups absent
RECURSIVE group_rows(_, _)
group_rows(rows, companies) ==
    IF companies = <<>> THEN <<>>
    ELSE LET g == group_of(rows, companies[1])
         IN (IF g = <<>> THEN <<>> ELSE <<group_row(companies[1], g)>>)
            \o group_rows(rows, Tail(companies))

\* a stable descending sort (mergesort): each row is inserted behind the rows
\* that are not smaller
RECURSIVE InsertByDesc(_, _, _)
InsertByDesc(sorted, r, key) ==
    IF sorted = <<>> THEN <<r>>
    ELSE IF FLt(sorted[1][key], r[key]) THEN <<r>> \o sorted
    ELSE <<sorted[1]>> \o InsertByDesc(Tail(sorted), r, key)

RECURSIVE SortDesc(_, _, _)
SortDesc(acc, rows, key) ==
    IF rows = <<>> THEN acc
    ELSE SortDesc(InsertByDesc(acc, rows[1], key), Tail(rows), key)

\* a stable ascending sort: each row is inserted behind the rows that are
\* not greater
RECURSIVE InsertByAsc(_, _, _)
InsertByAsc(sorted, r, key) ==
    IF sorted = <<>> THEN <<r>>
    ELSE IF FLt(r[key], sorted[1][key]) THEN <<r>> \o sorted
    ELSE <<sorted[1]>> \o InsertByAsc(Tail(sorted), r, key)

RECURSIVE SortAsc(_, _, _)
SortAsc(acc, rows, key) ==
    IF rows = <<>> THEN acc
    ELSE SortAsc(InsertByAsc(acc, rows[1], key), Tail(rows), key)

\* the rows whose key is a number, and those whose key is NaN, in row order
dropna(rows, key) == SelectSeq(rows, LAMBDA r : ~IsNaN(r[key]))
isna(rows, key) == SelectSeq(rows, LAMBDA r : IsNaN(r[key]))

head(rows, n) == SubSeq(rows, 1, IF n < Len(rows) THEN n ELSE Len(rows))

\* the orders in which a sort that is not stable may visit n rows
RowOrders(n) == {p \in [1..n -> 1..n] : \A i, j \in 1..n : p[i] = p[j] => i = j}

\* sort_values(key, ascending) with the default kind='quicksort', which is
\* not stable: rows of equal key come out in an order the sort is free to
\* choose, here the order `ties` visits them in; NaN keys are put last
sort_values(rows, key, ascending, ties) ==
    LET visited == [i \in 1..Len(rows) |-> rows[ties[i]]]
        valued == dropna(visited, key)
    IN (IF ascending THEN SortAsc(<<>>, valued, key) ELSE SortDesc(<<>>, valued, key))
       \o isna(visited, key)

\* the possible outcomes of sort_values(key, ascending=False): every
\* descending arrangement of the rows, rows of equal key in any order
sort_values_desc(rows, key) ==
    {sort_values(rows, key, FALSE, ties) : ties \in RowOrders(Len(rows))}

\* nlargest(n, key), keep='first'.  n >= len(df): the "slow method",
\* sort_values(ascending=False).head(n), not stable.  n < len(df): the rows
\* with a number are selected by a mergesort of the negated keys, which is
\* stable, the NaN rows follow
nlargest(rows, n, key, ties) ==
    IF n <= 0 THEN <<>>
    ELSE IF n >= Len(rows) THEN head(sort_values(rows, key, FALSE, ties), n)
    ELSE head(SortDesc(<<>>, dropna(rows, key), key) \o isna(rows, key), n)

\* nsmallest(n, key), keep='first'
nsmallest(rows, n, key, ties) ==
    IF n <= 0 THEN <<>>
    ELSE IF n >= Len(rows) THEN head(sort_values(rows, key, TRUE, ties), n)
    ELSE head(SortAsc(<<>>, dropna(rows, key), key) \o isna(rows, key), n)

\* the share left as a fraction (the * 100 forgotten)
market_share_fraction(revenue, total_revenue) == Round2(FDiv(revenue, total_revenue))

\* company_summary['Market_Share_%'] = (Total_Revenue / total_revenue * 100).round(2)
market_share(revenue, total_revenue) == Round2(FMul(FDiv(revenue, total_revenue), F(100)))

\* company_summary before its sort: the groups with their market share
company_shares(d) ==
    LET summary == group_rows(d.rows, CompanyOrder)
        total_revenue == FSum([i \in 1..Len(summary) |-> summary[i].Total_Revenue])
    IN [i \in 1..Len(summary) |->
           [c \in (DOMAIN summary[i]) \cup {"Market_Share_%"} |->
               IF c = "Market_Share_%"
               THEN market_share(summary[i].Total_Revenue, total_revenue)
               ELSE summary[i][c]]]

\* the possible values of company_summary (one for each outcome of the sort)
generate_company_analysis(d) == sort_values_desc(company_shares(d), "Total_Revenue")

\* ------------------------------------------------------------------------
\* Report
\* ------------------------------------------------------------------------
\* df.nlargest(1, key).iloc[0]: the first row, in row order, that holds the maximum
nlargest1(rows, key) ==
    LET m == SeriesMax([i \in 1..Len(rows) |-> rows[i][key]])
        i == CHOOSE k \in 1..Len(rows) :
                 /\ rows[k][key] = m
                 /\ \A j \in 1..(k - 1) : rows[j][key] # m
    IN rows[i]

\* what generate_pdf_report prints on the four pages of the PDF
generate_pdf_report(d, summary) ==
    [top_product |-> nlargest1(d.rows, "TAXBLEAMT")["ITNAME"],
     top_qty_product |-> nlargest1(d.rows, "QTY")["ITNAME"],
     top_company |-> summary[1].COMPANY,
     top_company_share |-> summary[1]["Market_Share_%"]]

\* ------------------------------------------------------------------------
\* analyze_data
\* ------------------------------------------------------------------------
\* column_mapping of df.rename(columns=column_mapping)
column_mapping(c) ==
    CASE c = "NAMT" -> "TAXBLEAMT"
      [] c = "PER" -> "GST"
      [] OTHER -> c

required_cols == <<"ITNAME", "QTY", "TAXBLEAMT", "GST">>

\* pd.DataFrame(json_data): the keys of the records become the columns; a list
\* without records has no columns
DataFrame(data) ==
    [columns |-> IF data.rows = <<>> THEN <<>> ELSE data.keys, rows |-> data.rows]

\* df.rename(columns=column_mapping, inplace=True)
rename_columns(d) ==
    [columns |-> [i \in 1..Len(d.columns) |-> column_mapping(d.columns[i])],
     rows |-> [i \in 1..Len(d.rows) |->
                  [c \in {column_mapping(k) : k \in DOMAIN d.rows[i]} |->
                      d.rows[i][CHOOSE k \in DOMAIN d.rows[i] : column_mapping(k) = c]]]]

\* the check that stops at the first missing column
RECURSIVE first_missing(_, _)
first_missing(cols, d) ==
    IF cols = <<>> THEN <<>>
    ELSE IF cols[1] \notin Range(d.columns) THEN <<cols[1]>>
    ELSE first_missing(Tail(cols), d)

missing_cols_first(d) == first_missing(<<"ITNAME", "QTY", "TAXBLEAMT", "GST">>, d)

\* [col for col in required_cols if col not in df.columns]
missing_cols(d) == SelectSeq(required_cols, LAMBDA col : col \notin Range(d.columns))

\* a summary that counts the rows of catalog companies only
result_summary_categorized(d) ==
    LET known == SelectSeq(d.rows, LAMBDA r : r["COMPANY"] # "Other")
    IN [total_rows |-> Len(known),
        total_revenue |-> FSum([i \in 1..Len(known) |-> known[i]["TAXBLEAMT"]]),
        total_quantity |-> Trunc(FSum([i \in 1..Len(known) |-> known[i]["QTY"]])),
        total_gst |-> FSum([i \in 1..Len(known) |-> known[i]["GST_AMOUNT"]]),
        grand_total |-> FSum([i \in 1..Len(known) |-> known[i]["TOTAL_WITH_GST"]]),
        total_companies |-> Cardinality(Range(Column(d, "COMPANY")))]

\* the summary of the success result
result_summary(d) ==
    [total_rows |-> Len(d.rows),
     total_revenue |-> FSum(Column(d, "TAXBLEAMT")),
     total_quantity |-> Trunc(FSum(Column(d, "QTY"))),
     total_gst |-> FSum(Column(d, "GST_AMOUNT")),
     grand_total |-> FSum(Column(d, "TOTAL_WITH_GST")),
     total_companies |-> Cardinality(Range(Column(d, "COMPANY")))]

NoResult == [success |-> FALSE, error |-> <<"not run">>]

\* ------------------------------------------------------------------------
\* Input batches
\* ------------------------------------------------------------------------
\* the layouts of a record of the batch: its keys, and the measurement each holds
Layouts ==
    { <<<<"ITNAME", "name">>, <<"QTY", "qty">>, <<"TAXBLEAMT", "amt">>, <<"GST", "rate">>>>,
      <<<<"ITNAME", "name">>, <<"QTY", "qty">>, <<"NAMT", "amt">>, <<"PER", "rate">>>>,
      <<<<"TAXBLEAMT", "amt">>, <<"ITNAME", "name">>>> }

ProductNames == {Agas, AgasPadded, Amistar, Unlisted}

\* quantity, taxable amount and tax rate of a line; amounts are currency
\* values (at most two decimals), quantities whole numbers
Lines ==
    { [qty |-> F(1), amt |-> F(600), rate |-> F(18)],
      [qty |-> F(0), amt |-> F(0), rate |-> F(5)],
      [qty |-> F(0), amt |-> F(1200), rate |-> F(18)],
      [qty |-> F(3), amt |-> Norm(1, 2), rate |-> F(5)] }

Measurements ==
    {[name |-> nm, qty |-> l.qty, amt |-> l.amt, rate |-> l.rate] : nm \in ProductNames, l \in Lines}

FieldOf(layout, k) == layout[CHOOSE i \in 1..Len(layout) : layout[i][1] = k][2]

JsonRecord(layout, m) ==
    [k \in {layout[i][1] : i \in 1..Len(layout)} |-> m[FieldOf(layout, k)]]

JsonBatches ==
    {[keys |-> [i \in 1..Len(layout) |-> layout[i][1]],
      rows |-> [i \in 1..Len(ms) |-> JsonRecord(layout, ms[i])]] :
        layout \in Layouts, ms \in SeqsUpTo(Measurements, MaxRows)}

\* ------------------------------------------------------------------------
\* The state machine: module load, then one call of analyze_data
\* ------------------------------------------------------------------------
EmptyFrame == [columns |-> <<>>, rows |-> <<>>]

\* nlargest(15, ...) of generate_pdf_report
pdf_top_n == 15

\* the state once the module is imported and its input has arrived
\* no sort has run yet
NoTies == [groups |-> <<>>, rows |-> <<>>]

\* no earlier run
NoPrevious == [company_summary |-> <<>>, result |-> NoResult]

\* no request served yet
NoRequest == [method |-> "", body |-> <<>>]

NoResponse == [statusCode |-> 0, headers |-> <<>>, body |-> <<>>]

Loaded(sources, batches, ns) ==
    /\ catalog_files \in sources
    /\ COMPANY_PRODUCTS = load_company_products_from_csv(catalog_files)
    /\ PRODUCT_TO_COMPANY = reverse_index(load_company_products_from_csv(catalog_files))
    /\ sort_ties = NoTies
    /\ previous = NoPrevious
    /\ request = NoRequest
    /\ response = NoResponse
    /\ calls = 0
    /\ json_data \in batches
    /\ top_n \in ns
    /\ df = EmptyFrame
    /\ company_summary = <<>>
    /\ result = NoResult
    /\ pc = "loaded"

Init == Loaded(CatalogSources, JsonBatches, {pdf_top_n})

\* a cell that holds a number (a float pair), not a text
IsNumber(cell) == Len(cell) = 2

\* the columns of d, among the given ones, that hold a cell that is no number
non_numeric(d, columns) ==
    SelectSeq(columns, LAMBDA c : \E i \in 1..Len(d.rows) : ~IsNumber(d.rows[i][c]))

\* the result of the except branch of analyze_data
failure(error) == [success |-> FALSE, error |-> error]

\* the possible outcomes of analyze_data(json_data) for a list of records:
\* the frame and the summary it has made when it returns, and what it returns.
\* Arithmetic on a column with a text cell raises TypeError, at PRICE_PER_UNIT
\* for QTY and TAXBLEAMT, at GST_AMOUNT for GST; the except branch returns it
analysis(data, index) ==
    LET renamed == rename_columns(DataFrame(data))
        missing == missing_cols(renamed)
        categorized == categorize_by_company(renamed, index)
    IN IF missing # <<>>
       THEN {[df |-> renamed,
              company_summary |-> <<>>,
              result |-> [success |-> FALSE,
                          error |-> <<"Missing required columns: ", missing>>,
                          available_columns |-> renamed.columns]]}
       ELSE IF non_numeric(categorized, <<"TAXBLEAMT", "QTY">>) # <<>>
       THEN {[df |-> categorized,
              company_summary |-> <<>>,
              result |-> failure(<<"unsupported operand type(s) for /: ",
                                   non_numeric(categorized, <<"TAXBLEAMT", "QTY">>)>>)]}
       ELSE IF non_numeric(categorized, <<"GST">>) # <<>>
       THEN {[df |-> SetColumn(categorized, "PRICE_PER_UNIT",
                         [i \in 1..Len(categorized.rows) |->
                             FDiv(categorized.rows[i]["TAXBLEAMT"], categorized.rows[i]["QTY"])]),
              company_summary |-> <<>>,
              result |-> failure(<<"unsupported operand type(s) for *: ", <<"GST">>>>)]}
       ELSE LET derived == calculate_advanced_metrics(categorized)
            IN {[df |-> derived,
                 company_summary |-> summary,
                 result |-> [success |-> TRUE,
                             pdf_bytes |-> generate_pdf_report(derived, summary),
                             summary |-> result_summary(derived)]] :
                   summary \in generate_company_analysis(derived)}

analyze_data ==
    /\ pc = "loaded"
    /\ pc' = "done"
    /\ \E outcome \in analysis(json_data, PRODUCT_TO_COMPANY) :
          /\ df' = outcome.df
          /\ company_summary' = outcome.company_summary
          /\ result' = outcome.result
    /\ UNCHANGED <<COMPANY_PRODUCTS, PRODUCT_TO_COMPANY, json_data, top_n,
                   catalog_files, sort_ties, previous, request, response, calls>>

Next == analyze_data

Spec == Init /\ [][Next]_vars

\* ------------------------------------------------------------------------
\* Top lists and insights: app.py analyze_excel_data and local_analyzer.py
\* identify_star_performers
\* ------------------------------------------------------------------------
\* the rows of a frame, each with its index label (its position in the frame)
with_index(rows) ==
    [i \in 1..Len(rows) |->
        [c \in (DOMAIN rows[i]) \cup {"index"} |-> IF c = "index" THEN i ELSE rows[i][c]]]

\* frame[[columns]]: the named columns of each row, the index label kept
select(rows, columns) ==
    [i \in 1..Len(rows) |-> [c \in columns \cup {"index"} |-> rows[i][c]]]

\* frame[[columns]].to_dict('records'): the named columns, the index label lost
to_dict_records(rows, columns) ==
    [i \in 1..Len(rows) |-> [c \in columns |-> rows[i][c]]]

\* Series.idxmax(): the label of the first row that holds the maximum
idxmax(col) ==
    CHOOSE k \in 1..Len(col) :
        /\ col[k] = SeriesMax(col)
        /\ \A j \in 1..(k - 1) : col[j] # SeriesMax(col)

\* identify_star_performers(df, top_n)
identify_star_performers(d, n, ties) ==
    LET rows == with_index(d.rows)
    IN [top_by_revenue |->
            select(nlargest(rows, n, "TAXBLEAMT", ties),
                   {"ITNAME", "COMPANY", "TAXBLEAMT", "QTY", "PERFORMANCE_SCORE"}),
        top_by_quantity |->
            select(nlargest(rows, n, "QTY", ties),
                   {"ITNAME", "COMPANY", "QTY", "TAXBLEAMT", "PERFORMANCE_SCORE"}),
        top_by_performance |->
            select(nlargest(rows, n, "PERFORMANCE_SCORE", ties),
                   {"ITNAME", "COMPANY", "PERFORMANCE_SCORE", "TAXBLEAMT", "QTY"}),
        bottom_performers |->
            select(nsmallest(rows, n, "PERFORMANCE_SCORE", ties),
                   {"ITNAME", "COMPANY", "PERFORMANCE_SCORE", "TAXBLEAMT", "QTY"}),
        highest_price_per_unit |->
            select(nlargest(rows, n, "PRICE_PER_UNIT", ties),
                   {"ITNAME", "COMPANY", "PRICE_PER_UNIT", "QTY"}),
        lowest_price_per_unit |->
            select(nsmallest(rows, n, "PRICE_PER_UNIT", ties),
                   {"ITNAME", "COMPANY", "PRICE_PER_UNIT", "QTY"})]

\* top_n=10 of process_file
star_top_n == 10

\* nlargest(5, ...) of analyze_excel_data
excel_top_n == 5

\* the groups of app.py's categorize_by_company: count and sums, not rounded
RECURSIVE excel_group_rows(_, _)
excel_group_rows(rows, companies) ==
    IF companies = <<>> THEN <<>>
    ELSE LET g == group_of(rows, companies[1])
             rest == excel_group_rows(rows, Tail(companies))
         IN IF g = <<>> THEN rest
            ELSE <<[COMPANY |-> companies[1],
                    Product_Count |-> Len(g),
                    Total_Quantity |-> FSum([i \in 1..Len(g) |-> g[i]["QTY"]]),
                    Total_Revenue |-> FSum([i \in 1..Len(g) |-> g[i]["TAXBLEAMT"]])]>>
                 \o rest

\* the possible company summaries of app.py's categorize_by_company
excel_company_summary(d) ==
    sort_values_desc(excel_group_rows(d.rows, CompanyOrder), "Total_Revenue")

\* analysis_results of analyze_excel_data: the summary, the top products and
\* the insights on the top company, the best seller and the highest revenue
analysis_results(d, summary, ties) ==
    LET qty == Column(d, "QTY")
        amount == Column(d, "TAXBLEAMT")
        companies == {d.rows[i]["COMPANY"] : i \in 1..Len(d.rows)}
        other == {i \in 1..Len(d.rows) : d.rows[i]["COMPANY"] = "Other"}
    IN [summary |-> [total_items |-> Len(d.rows),
                     total_companies |-> Cardinality(companies),
                     categorized_products |-> Len(d.rows) - Cardinality(other),
                     uncategorized_products |-> Cardinality(other)],
        top_products |->
            [by_quantity |->
                 to_dict_records(nlargest(d.rows, excel_top_n, "QTY", ties),
                                 {"ITNAME", "QTY", "COMPANY"}),
             by_revenue |->
                 to_dict_records(nlargest(d.rows, excel_top_n, "TAXBLEAMT", ties),
                                 {"ITNAME", "TAXBLEAMT", "COMPANY"})],
        insights |->
            [top_company |-> summary[1].COMPANY,
             best_seller_idx |-> idxmax(qty),
             best_seller |-> d.rows[idxmax(qty)]["ITNAME"],
             best_seller_qty |-> SeriesMax(qty),
             best_seller_company |-> d.rows[idxmax(qty)]["COMPANY"],
             highest_revenue_idx |-> idxmax(amount),
             highest_revenue |-> d.rows[idxmax(amount)]["ITNAME"],
             highest_revenue_amt |-> SeriesMax(amount),
             highest_revenue_company |-> d.rows[idxmax(amount)]["COMPANY"]]]

\* the sheets of sales lines the programs read: some row, and all four
\* columns under their own names or under the aliases NAMT and PER
SalesBatches ==
    {b \in JsonBatches :
        /\ b.rows # <<>>
        /\ Range(required_cols) \subseteq {column_mapping(b.keys[i]) : i \in 1..Len(b.keys)}}

\* the n a top list is asked for: the one process_file passes, and a single row
TopNs == {1, star_top_n}

\* the catalog with its three files, in the order of their names
FullCatalog == {<<AdamaFile, SairamFile, SyngentaFile>>}

InitInsights == Loaded(FullCatalog, SalesBatches, TopNs)

\* app.py: analyze_excel_data(df) as the /analyze endpoint calls it.  The
\* columns are not renamed: on a sheet without a TAXBLEAMT column the
\* aggregation of categorize_by_company raises KeyError after COMPANY is
\* assigned, and the endpoint answers 500 with the error
analyze_excel_data ==
    /\ pc = "loaded"
    /\ \E categorized \in {categorize_by_company(DataFrame(json_data), PRODUCT_TO_COMPANY)} :
          IF "TAXBLEAMT" \notin Range(categorized.columns)
          THEN /\ pc' = "analysis_failed"
               /\ df' = categorized
               /\ company_summary' = <<>>
               /\ result' = [success |-> FALSE,
                             error |-> <<"Column(s) do not exist: ", <<"TAXBLEAMT">>>>]
          ELSE \E summary \in excel_company_summary(categorized) :
               \E ties \in RowOrders(Len(categorized.rows)) :
                  /\ pc' = "analysis"
                  /\ df' = categorized
                  /\ company_summary' = summary
                  /\ result' = analysis_results(categorized, summary, ties)
    /\ UNCHANGED <<COMPANY_PRODUCTS, PRODUCT_TO_COMPANY, json_data, top_n,
                   catalog_files, sort_ties, previous, request, response, calls>>

\* local_analyzer.py: load_data, categorize_by_company, calculate_advanced_metrics
\* and identify_star_performers as process_file calls them (the summaries made
\* in between read df and leave it as it is)
process_file ==
    /\ pc = "loaded"
    /\ pc' = "performers"
    /\ \E derived \in {calculate_advanced_metrics(
                          categorize_by_company(rename_columns(DataFrame(json_data)),
                                                PRODUCT_TO_COMPANY))} :
       \E ties \in RowOrders(Len(derived.rows)) :
          /\ df' = derived
          /\ result' = [performers |-> identify_star_performers(derived, top_n, ties)]
    /\ company_summary' = <<>>
    /\ UNCHANGED <<COMPANY_PRODUCTS, PRODUCT_TO_COMPANY, json_data, top_n,
                   catalog_files, sort_ties, previous, request, response, calls>>

NextInsights == analyze_excel_data \/ process_file \/ analyze_data

SpecInsights == InitInsights /\ [][NextInsights]_vars

\* ------------------------------------------------------------------------
\* Stock analysis: stock_analyzer.py
\* ------------------------------------------------------------------------
\* the quotient stored as it is, without the np.where
turnover_ratio_unguarded(outward, total) == FMul(FDiv(outward, total), F(100))

\* np.where(df['TOTAL'] > 0, df['OUTWARD'] / df['TOTAL'] * 100, 0): the
\* quotient is computed for every row (inf or NaN where TOTAL is 0, nothing
\* raised) and np.where keeps it only where TOTAL > 0
turnover_ratio(outward, total) ==
    LET quotient == FMul(FDiv(outward, total), F(100))
    IN IF FLt(F(0), total) THEN quotient ELSE F(0)

\* categorize_stock_status with the upper bound of each band left out
categorize_stock_status_exclusive(row) ==
    IF FLt(row["CLST"], F(0)) THEN "Out of Stock"
    ELSE IF FLt(row["CLST"], F(5)) THEN "Low Stock"
    ELSE IF FLt(row["CLST"], F(20)) THEN "Medium Stock"
    ELSE IF FLt(row["CLST"], F(50)) THEN "Good Stock"
    ELSE "High Stock"

\* categorize_stock_status(row)
categorize_stock_status(row) ==
    IF FLeq(row["CLST"], F(0)) THEN "Out of Stock"
    ELSE IF FLeq(row["CLST"], F(5)) THEN "Low Stock"
    ELSE IF FLeq(row["CLST"], F(20)) THEN "Medium Stock"
    ELSE IF FLeq(row["CLST"], F(50)) THEN "Good Stock"
    ELSE "High Stock"

\* categorize_movement with the thresholds themselves in the lower band
categorize_movement_exclusive(row) ==
    IF FEq(row["OUTWARD"], F(0)) THEN "No Movement"
    ELSE IF FLt(F(70), row["TURNOVER_RATIO"]) THEN "Fast Moving"
    ELSE IF FLt(F(40), row["TURNOVER_RATIO"]) THEN "Medium Moving"
    ELSE "Slow Moving"

\* categorize_movement(row)
categorize_movement(row) ==
    IF FEq(row["OUTWARD"], F(0)) THEN "No Movement"
    ELSE IF FLeq(F(70), row["TURNOVER_RATIO"]) THEN "Fast Moving"
    ELSE IF FLeq(F(40), row["TURNOVER_RATIO"]) THEN "Medium Moving"
    ELSE "Slow Moving"

\* df['CLST'] < 0
has_negative_stock(row) == FLt(row["CLST"], F(0))

\* a dead-stock flag that is the absence of movement, whatever the closing stock
is_dead_stock_unmoved(row) == FEq(row["INWARD"], F(0)) /\ FEq(row["OUTWARD"], F(0))

\* (df['INWARD'] == 0) & (df['OUTWARD'] == 0) & (df['CLST'] > 0)
is_dead_stock(row) ==
    FEq(row["INWARD"], F(0)) /\ FEq(row["OUTWARD"], F(0)) /\ FLt(F(0), row["CLST"])

\* (df['CLST'] > 100) & (df['TURNOVER_RATIO'] < 30)
is_overstocked(row) == FLt(F(100), row["CLST"]) /\ FLt(row["TURNOVER_RATIO"], F(30))

\* calculate_stock_metrics(df)
calculate_stock_metrics(d) ==
    LET n == Len(d.rows)
        d1 == SetColumn(d, "TURNOVER_RATIO",
                  [i \in 1..n |-> turnover_ratio(d.rows[i]["OUTWARD"], d.rows[i]["TOTAL"])])
        d2 == SetColumn(d1, "STOCK_EFFICIENCY",
                  [i \in 1..n |-> turnover_ratio(d.rows[i]["OUTWARD"], d.rows[i]["TOTAL"])])
        d3 == SetColumn(d2, "HAS_MOVEMENT",
                  [i \in 1..n |-> FLt(F(0), d.rows[i]["INWARD"]) \/ FLt(F(0), d.rows[i]["OUTWARD"])])
        d4 == SetColumn(d3, "STOCK_STATUS", [i \in 1..n |-> categorize_stock_status(d3.rows[i])])
        d5 == SetColumn(d4, "MOVEMENT_TYPE", [i \in 1..n |-> categorize_movement(d4.rows[i])])
        d6 == SetColumn(d5, "HAS_NEGATIVE_STOCK", [i \in 1..n |-> has_negative_stock(d5.rows[i])])
        d7 == SetColumn(d6, "IS_DEAD_STOCK", [i \in 1..n |-> is_dead_stock(d6.rows[i])])
    IN SetColumn(d7, "IS_OVERSTOCKED", [i \in 1..n |-> is_overstocked(d7.rows[i])])

\* generate_stock_overview(df)
generate_stock_overview(d) ==
    [Total_Products |-> Len(d.rows),
     Total_Opening_Stock |-> FSum(Column(d, "OPST")),
     Total_Inward |-> FSum(Column(d, "INWARD")),
     Total_Available |-> FSum(Column(d, "TOTAL")),
     Total_Outward |-> FSum(Column(d, "OUTWARD")),
     Total_Closing_Stock |-> FSum(Column(d, "CLST")),
     Avg_Turnover_Ratio |-> SeriesMean(Column(d, "TURNOVER_RATIO")),
     Products_In_Stock |-> Len(SelectSeq(d.rows, LAMBDA r : FLt(F(0), r["CLST"]))),
     Products_Out_Of_Stock |-> Len(SelectSeq(d.rows, LAMBDA r : FLeq(r["CLST"], F(0)))),
     Products_With_Negative_Stock |-> Len(SelectSeq(d.rows, LAMBDA r : FLt(r["CLST"], F(0)))),
     Dead_Stock_Products |-> Len(SelectSeq(d.rows, LAMBDA r : r["IS_DEAD_STOCK"])),
     Fast_Moving_Products |-> Len(SelectSeq(d.rows, LAMBDA r : r["MOVEMENT_TYPE"] = "Fast Moving")),
     Slow_Moving_Products |-> Len(SelectSeq(d.rows, LAMBDA r : r["MOVEMENT_TYPE"] = "Slow Moving")),
     No_Movement_Products |-> Len(SelectSeq(d.rows, LAMBDA r : r["MOVEMENT_TYPE"] = "No Movement")),
     Overstocked_Products |-> Len(SelectSeq(d.rows, LAMBDA r : r["IS_OVERSTOCKED"]))]

\* one group of df.groupby('COMPANY').agg({...}).round(2), columns renamed
stock_group_row(c, g) ==
    LET col(name) == [i \in 1..Len(g) |-> g[i][name]]
    IN [COMPANY |-> c,
        Product_Count |-> Len(g),
        Opening_Stock |-> Round2(FSum(col("OPST"))),
        Inward |-> Round2(FSum(col("INWARD"))),
        Total_Available |-> Round2(FSum(col("TOTAL"))),
        Outward |-> Round2(FSum(col("OUTWARD"))),
        Closing_Stock |-> Round2(FSum(col("CLST"))),
        Avg_Turnover_Ratio |-> Round2(SeriesMean(col("TURNOVER_RATIO"))),
        Negative_Stock_Count |-> Len(SelectSeq(g, LAMBDA r : r["HAS_NEGATIVE_STOCK"])),
        Dead_Stock_Count |-> Len(SelectSeq(g, LAMBDA r : r["IS_DEAD_STOCK"])),
        Overstocked_Count |-> Len(SelectSeq(g, LAMBDA r : r["IS_OVERSTOCKED"]))]

RECURSIVE stock_group_rows(_, _)
stock_group_rows(rows, companies) ==
    IF companies = <<>> THEN <<>>
    ELSE LET g == group_of(rows, companies[1])
         IN (IF g = <<>> THEN <<>> ELSE <<stock_group_row(companies[1], g)>>)
            \o stock_group_rows(rows, Tail(companies))

\* the summary of generate_company_stock_analysis(df) before its sort: the
\* availability rate subtracts (company_summary['Closing_Stock'] <= 0).sum(),
\* a count over the whole summary, from each company's product count
company_stock_rates(d) ==
    LET summary == stock_group_rows(d.rows, CompanyOrder)
        without_stock == Len(SelectSeq(summary, LAMBDA g : FLeq(g.Closing_Stock, F(0))))
    IN [i \in 1..Len(summary) |->
           WithCol(summary[i], "Stock_Availability_%",
               Round2(FMul(FDiv(F(summary[i].Product_Count - without_stock),
                                F(summary[i].Product_Count)), F(100))))]

\* one value for each outcome of the sort
generate_company_stock_analysis(d) == sort_values_desc(company_stock_rates(d), "Closing_Stock")

\* the order in which a sort visits the rows of a filtered frame, when it
\* visits the rows of the whole frame in the order `ties`
visit(rows, ties) ==
    LET present == SelectSeq(ties, LAMBDA x : \E i \in 1..Len(rows) : rows[i]["index"] = x)
    IN [k \in 1..Len(rows) |-> CHOOSE i \in 1..Len(rows) : rows[i]["index"] = present[k]]

\* df[mask][[columns]].sort_values(key, ascending)
sorted_selection(rows, columns, key, ascending, ties) ==
    select(sort_values(rows, key, ascending, visit(rows, ties)), columns)

\* identify_fast_movers(df, top_n)
identify_fast_movers(d, n, ties) ==
    LET moved == SelectSeq(with_index(d.rows), LAMBDA r : FLt(F(0), r["OUTWARD"]))
    IN select(nlargest(moved, n, "OUTWARD", visit(moved, ties)),
              {"ITNAME", "COMPANY", "OUTWARD", "CLST", "TURNOVER_RATIO", "STOCK_STATUS"})

\* identify_slow_movers(df, top_n)
identify_slow_movers(d, n, ties) ==
    LET moved == SelectSeq(with_index(d.rows),
                     LAMBDA r : FLt(F(0), r["CLST"]) /\ FLt(F(0), r["OUTWARD"]))
    IN select(nsmallest(moved, n, "TURNOVER_RATIO", visit(moved, ties)),
              {"ITNAME", "COMPANY", "CLST", "OUTWARD", "TURNOVER_RATIO", "STOCK_STATUS"})

\* identify_dead_stock(df)
identify_dead_stock(d, ties) ==
    sorted_selection(SelectSeq(with_index(d.rows), LAMBDA r : r["IS_DEAD_STOCK"]),
                     {"ITNAME", "COMPANY", "CLST", "STOCK_STATUS"}, "CLST", FALSE, ties)

\* identify_problem_areas with the out-of-stock list read off the stock
\* status instead of CLST == 0
identify_problem_areas_by_status(d, ties) ==
    [negative_stock |->
         sorted_selection(SelectSeq(with_index(d.rows), LAMBDA r : r["HAS_NEGATIVE_STOCK"]),
                          {"ITNAME", "COMPANY", "OPST", "INWARD", "OUTWARD", "CLST"},
                          "CLST", TRUE, ties),
     out_of_stock |->
         sorted_selection(SelectSeq(with_index(d.rows),
                              LAMBDA r : r["STOCK_STATUS"] = "Out of Stock"),
                          {"ITNAME", "COMPANY", "OUTWARD", "STOCK_STATUS"},
                          "OUTWARD", FALSE, ties),
     overstocked |-> <<>>,
     low_stock_high_demand |-> <<>>]

\* identify_problem_areas(df)
identify_problem_areas(d, ties) ==
    [negative_stock |->
         sorted_selection(SelectSeq(with_index(d.rows), LAMBDA r : r["HAS_NEGATIVE_STOCK"]),
                          {"ITNAME", "COMPANY", "OPST", "INWARD", "OUTWARD", "CLST"},
                          "CLST", TRUE, ties),
     out_of_stock |->
         sorted_selection(SelectSeq(with_index(d.rows), LAMBDA r : FEq(r["CLST"], F(0))),
                          {"ITNAME", "COMPANY", "OUTWARD", "STOCK_STATUS"},
                          "OUTWARD", FALSE, ties),
     overstocked |->
         sorted_selection(SelectSeq(with_index(d.rows), LAMBDA r : r["IS_OVERSTOCKED"]),
                          {"ITNAME", "COMPANY", "CLST", "OUTWARD", "TURNOVER_RATIO"},
                          "CLST", FALSE, ties),
     low_stock_high_demand |->
         sorted_selection(SelectSeq(with_index(d.rows),
                              LAMBDA r : /\ FLeq(r["CLST"], F(10))
                                         /\ FLt(F(0), r["CLST"])
                                         /\ FLeq(F(50), r["TURNOVER_RATIO"])),
                          {"ITNAME", "COMPANY", "CLST", "OUTWARD", "TURNOVER_RATIO"},
                          "TURNOVER_RATIO", FALSE, ties)]

\* top_n=15 of identify_fast_movers and identify_slow_movers
stock_top_n == 15

\* lines of a stock sheet: a product, its opening stock, what came in, what
\* went out and the closing stock the sheet reports (whole units)
StockLines ==
    { [name |-> Agas,     opst |-> 0,   inward |-> 0,  outward |-> 0,  clst |-> 5],
      [name |-> Amistar,  opst |-> 0,   inward |-> 2,  outward |-> 5,  clst |-> -3],
      [name |-> Unlisted, opst |-> 10,  inward |-> 0,  outward |-> 7,  clst |-> 3],
      [name |-> Agas,     opst |-> 5,   inward |-> 5,  outward |-> 4,  clst |-> 6],
      [name |-> Amistar,  opst |-> 4,   inward |-> 6,  outward |-> 10, clst |-> 0],
      [name |-> Unlisted, opst |-> 100, inward |-> 50, outward |-> 30, clst |-> 120],
      [name |-> Agas,     opst |-> 150, inward |-> 0,  outward |-> 45, clst |-> 105],
      [name |-> Amistar,  opst |-> 100, inward |-> 20, outward |-> 20, clst |-> 100],
      [name |-> Unlisted, opst |-> 0,   inward |-> 20, outward |-> 0,  clst |-> 20],
      [name |-> Agas,     opst |-> 21,  inward |-> 0,  outward |-> 0,  clst |-> 21],
      [name |-> Amistar,  opst |-> 60,  inward |-> 0,  outward |-> 10, clst |-> 50],
      [name |-> Unlisted, opst |-> 0,   inward |-> 60, outward |-> 9,  clst |-> 51],
      [name |-> Agas,     opst |-> 0,   inward |-> 0,  outward |-> 0,  clst |-> 0],
      [name |-> Amistar,  opst |-> 1,   inward |-> 9,  outward |-> 9,  clst |-> 1],
      [name |-> Unlisted, opst |-> -5,  inward |-> 3,  outward |-> 1,  clst |-> -3] }

\* the row pd.read_excel makes of a line; TOTAL is the sheet's opening + inward
StockRecord(l) ==
    [ITNAME |-> l.name, OPST |-> F(l.opst), INWARD |-> F(l.inward),
     TOTAL |-> F(l.opst + l.inward), OUTWARD |-> F(l.outward), CLST |-> F(l.clst)]

\* the sheets load_stock_data reads: at least one row
StockSheets ==
    {[keys |-> <<"ITNAME", "OPST", "INWARD", "TOTAL", "OUTWARD", "CLST">>,
      rows |-> [i \in 1..Len(ls) |-> StockRecord(ls[i])]] :
        ls \in SeqsUpTo(StockLines, MaxRows) \ {<<>>}}

\* the n the movers are asked for: the default, and a single row
StockTopNs == {1, stock_top_n}

InitStock == Loaded(FullCatalog, StockSheets, StockTopNs)

\* process_stock_file: load_stock_data, categorize_by_company,
\* calculate_stock_metrics, then the overview, the company analysis, the
\* movers, the dead stock and the problem areas
process_stock_file ==
    /\ pc = "loaded"
    /\ pc' = "stock_done"
    /\ \E derived \in {calculate_stock_metrics(
                          categorize_by_company(DataFrame(json_data), PRODUCT_TO_COMPANY))} :
       \E summary \in generate_company_stock_analysis(derived) :
       \E ties \in RowOrders(Len(derived.rows)) :
          /\ df' = derived
          /\ company_summary' = summary
          /\ result' = [success |-> TRUE,
                        overview |-> generate_stock_overview(derived),
                        fast_movers |-> identify_fast_movers(derived, top_n, ties),
                        slow_movers |-> identify_slow_movers(derived, top_n, ties),
                        dead_stock |-> identify_dead_stock(derived, ties),
                        problems |-> identify_problem_areas(derived, ties)]
    /\ UNCHANGED <<COMPANY_PRODUCTS, PRODUCT_TO_COMPANY, json_data, top_n,
                   catalog_files, sort_ties, previous, request, response, calls>>

NextStock == process_stock_file

SpecStock == InitStock /\ [][NextStock]_vars

\* ------------------------------------------------------------------------
\* Helpers of the properties
\* ------------------------------------------------------------------------
Succeeded == pc = "done" /\ result.success
Failed == pc = "done" /\ ~result.success

FAbs(a) == <<Abs(a[1]), a[2]>>

NRows == Len(df.rows)

\* the columns a record of the batch has once the aliases are renamed
InputColumns ==
    IF json_data.rows = <<>> THEN {}
    ELSE {column_mapping(json_data.keys[i]) : i \in 1..Len(json_data.keys)}

\* the value a record of the batch holds for a measurement, whatever its key is called
InputValue(i, c) ==
    json_data.rows[i][CHOOSE k \in DOMAIN json_data.rows[i] : column_mapping(k) = c]

CatalogCompanies == {COMPANY_PRODUCTS[k].company : k \in 1..Len(COMPANY_PRODUCTS)}

\* the companies whose product list holds the name
ListedUnder(name) ==
    {COMPANY_PRODUCTS[k].company :
        k \in {j \in 1..Len(COMPANY_PRODUCTS) : name \in Range(COMPANY_PRODUCTS[j].products)}}

Permuted(d, p) == [columns |-> d.columns, rows |-> [i \in 1..Len(d.rows) |-> d.rows[p[i]]]]

\* ------------------------------------------------------------------------
\* C1: the company of a row is decided by the row's product name and the
\* reverse index alone: the catalog company registered for that exact name,
\* "Other" when the name is no key (so every row is "Other" under an empty
\* catalog), always in catalogCompanies \cup {"Other"}, and the same whatever
\* the order of the rows of the batch.
\* ------------------------------------------------------------------------
C1_ClassificationByNameAlone ==
    Succeeded =>
        \A i \in 1..NRows :
            LET name == InputValue(i, "ITNAME")
                company == df.rows[i]["COMPANY"]
            IN /\ company \in CatalogCompanies \cup {"Other"}
               /\ IF ListedUnder(name) = {} THEN company = "Other"
                                            ELSE company \in ListedUnder(name)
               /\ name \in DOMAIN PRODUCT_TO_COMPANY => company = PRODUCT_TO_COMPANY[name]
               /\ COMPANY_PRODUCTS = <<>> => company = "Other"
               /\ \A p \in RowOrders(NRows) :
                     categorize_by_company(
                         Permuted(rename_columns(DataFrame(json_data)), p),
                         PRODUCT_TO_COMPANY).rows[i]["COMPANY"] = df.rows[p[i]]["COMPANY"]

C1_Witness ==
    /\ Succeeded
    /\ NRows = 2
    /\ df.rows[1]["COMPANY"] = "Adama"
    /\ df.rows[2]["COMPANY"] = "Other"

\* ------------------------------------------------------------------------
\* C2: the Total_Revenue of the Company Summary adds up to the taxable
\* amounts of the batch exactly: no row is dropped or counted twice.
\* ------------------------------------------------------------------------
C2_RevenueConserved ==
    Succeeded =>
        /\ FSum([k \in 1..Len(company_summary) |-> company_summary[k].Total_Revenue])
             = FSum([i \in 1..Len(json_data.rows) |-> InputValue(i, "TAXBLEAMT")])
        /\ \A k \in 1..Len(company_summary) :
              company_summary[k].Product_Count =
                  Cardinality({i \in 1..NRows :
                                  df.rows[i]["COMPANY"] = company_summary[k].COMPANY})

C2_Witness ==
    /\ Succeeded
    /\ NRows = 2
    /\ Len(company_summary) = 1
    /\ company_summary[1].Total_Revenue = F(1800)

\* ------------------------------------------------------------------------
\* C3: with a total revenue of 0 the market share of every company of the
\* Company Summary is exactly 0%.
\* ------------------------------------------------------------------------
C3_ZeroRevenueShareIsZero ==
    (Succeeded /\ FSum(Column(df, "TAXBLEAMT")) = F(0)) =>
        \A k \in 1..Len(company_summary) : company_summary[k]["Market_Share_%"] = F(0)

\* ------------------------------------------------------------------------
\* C4: with a total revenue above 0, the market share of a company is its
\* revenue / the total revenue of all companies * 100 (to the two decimals
\* the summary keeps), the total being the one of the whole batch, and the
\* shares add up to 100% up to that rounding (half a hundredth a company).
\* ------------------------------------------------------------------------
C4_MarketShare ==
    LET total == FSum(Column(df, "TAXBLEAMT"))
        share(k) == company_summary[k]["Market_Share_%"]
        exact(k) == FDiv(FMul(company_summary[k].Total_Revenue, F(100)), total)
    IN (Succeeded /\ FLt(F(0), total)) =>
          /\ \A k \in 1..Len(company_summary) :
                /\ FLeq(FAbs(FSub(share(k), exact(k))), Norm(5, 1000))
                /\ Round2(share(k)) = share(k)
          /\ FLeq(FAbs(FSub(FSum([k \in 1..Len(company_summary) |-> share(k)]), F(100))),
                  FMul(Norm(5, 1000), F(Len(company_summary))))

C4_Witness ==
    /\ Succeeded
    /\ Len(company_summary) = 2
    /\ company_summary[1]["Market_Share_%"] = Norm(9992, 100)
    /\ company_summary[2]["Market_Share_%"] = Norm(8, 100)

\* ------------------------------------------------------------------------
\* C5: a batch without one of the required columns (after the aliases are
\* renamed) fails as a whole: success is False, the error names every
\* missing column, available_columns lists the columns present, and nothing
\* is classified, derived, summarised or rendered.
\* ------------------------------------------------------------------------
C5_MissingColumnFailsBatch ==
    (pc = "done" /\ ~(Range(required_cols) \subseteq InputColumns)) =>
        /\ result.success = FALSE
        /\ result.error[1] = "Missing required columns: "
        /\ Range(result.error[2]) = Range(required_cols) \ InputColumns
        /\ Range(result.available_columns) = InputColumns
        /\ DOMAIN result = {"success", "error", "available_columns"}
        /\ company_summary = <<>>
        /\ Range(df.columns) = InputColumns
        /\ \A i \in 1..NRows : DOMAIN df.rows[i] = InputColumns

C5_Witness ==
    /\ Failed
    /\ NRows = 2
    /\ result.error[2] = <<"QTY", "GST">>
    /\ result.available_columns = <<"TAXBLEAMT", "ITNAME">>

\* ------------------------------------------------------------------------
\* C6: in a batch whose taxable amounts are all equal, or whose quantities
\* are all equal, the normalized value of that field is 0 for every row, so
\* the performance score of every row is a number, never NaN.
\* ------------------------------------------------------------------------
ZeroRange(c) == \A i, j \in 1..NRows : df.rows[i][c] = df.rows[j][c]

\* the min-max normalized value with the zero range defined as 0
GuardedNorm(c, i) ==
    IF ZeroRange(c) THEN F(0)
    ELSE FDiv(FSub(df.rows[i][c], SeriesMin(Column(df, c))),
              FSub(SeriesMax(Column(df, c)), SeriesMin(Column(df, c))))

C6_ZeroRangeScoreDefined ==
    (Succeeded /\ (ZeroRange("TAXBLEAMT") \/ ZeroRange("QTY"))) =>
        \A i \in 1..NRows :
            /\ IsFinite(df.rows[i]["PERFORMANCE_SCORE"])
            /\ df.rows[i]["PERFORMANCE_SCORE"] =
                  FAdd(FMul(GuardedNorm("TAXBLEAMT", i), F(60)),
                       FMul(GuardedNorm("QTY", i), F(40)))

\* ------------------------------------------------------------------------
\* C7: the performance score of every row of every batch is
\* (normalizedRevenue * 0.6 + normalizedQuantity * 0.4) * 100 with
\* normalized = (value - min) / (max - min), and lies in [0, 100].
\* ------------------------------------------------------------------------
MinMax(c, i) ==
    FDiv(FSub(InputValue(i, c), SeriesMin(Column(df, c))),
         FSub(SeriesMax(Column(df, c)), SeriesMin(Column(df, c))))

C7_ScoreInRange ==
    Succeeded =>
        \A i \in 1..NRows :
            /\ df.rows[i]["PERFORMANCE_SCORE"] =
                  FAdd(FMul(MinMax("TAXBLEAMT", i), F(60)), FMul(MinMax("QTY", i), F(40)))
            /\ FLeq(F(0), df.rows[i]["PERFORMANCE_SCORE"])
            /\ FLeq(df.rows[i]["PERFORMANCE_SCORE"], F(100))

\* ------------------------------------------------------------------------
\* C8: the unit price of a row with quantity 0 is 0 or the undefined marker
\* (NaN), nothing is raised, and the unit price of every other row is its
\* taxable amount / quantity.
\* ------------------------------------------------------------------------
C8_ZeroQuantityUnitPrice ==
    (pc = "done" /\ Range(required_cols) \subseteq InputColumns) =>
        /\ result.success
        /\ \A i \in 1..NRows :
              IF InputValue(i, "QTY") = F(0)
              THEN df.rows[i]["PRICE_PER_UNIT"] \in {F(0), NaN}
              ELSE df.rows[i]["PRICE_PER_UNIT"]
                      = FDiv(InputValue(i, "TAXBLEAMT"), InputValue(i, "QTY"))

\* ------------------------------------------------------------------------
\* C9 (as stated): every row that holds the maximum of a field has
\* percentile 100, also when several rows tie for the maximum.
\* ------------------------------------------------------------------------
HoldsMax(c, i) == \A j \in 1..NRows : FLeq(df.rows[j][c], df.rows[i][c])

TiedAtMax(c) == Cardinality({i \in 1..NRows : HoldsMax(c, i)})

C9_MaxGetsHundred ==
    Succeeded =>
        \A i \in 1..NRows :
            /\ HoldsMax("TAXBLEAMT", i) => df.rows[i]["REVENUE_PERCENTILE"] = F(100)
            /\ HoldsMax("QTY", i) => df.rows[i]["QTY_PERCENTILE"] = F(100)

\* C9 (amended): with n rows of which k hold the maximum of the field, each
\* of the k rows has percentile 100 * (n - (k - 1) / 2) / n, the average rank
\* of the tied group over n: 100 exactly when the maximum is unique.
MaxPercentile(c) == Norm(100 * (2 * NRows - TiedAtMax(c) + 1), 2 * NRows)

C9_MaxGetsAverageRank ==
    Succeeded =>
        \A i \in 1..NRows :
            /\ HoldsMax("TAXBLEAMT", i) =>
                  /\ df.rows[i]["REVENUE_PERCENTILE"] = MaxPercentile("TAXBLEAMT")
                  /\ (df.rows[i]["REVENUE_PERCENTILE"] = F(100)) = (TiedAtMax("TAXBLEAMT") = 1)
            /\ HoldsMax("QTY", i) =>
                  /\ df.rows[i]["QTY_PERCENTILE"] = MaxPercentile("QTY")
                  /\ (df.rows[i]["QTY_PERCENTILE"] = F(100)) = (TiedAtMax("QTY") = 1)

C9_Witness ==
    /\ Succeeded
    /\ NRows = 2
    /\ TiedAtMax("QTY") = 2
    /\ df.rows[1]["QTY_PERCENTILE"] = F(75)
    /\ TiedAtMax("TAXBLEAMT") = 1
    /\ df.rows[2]["REVENUE_PERCENTILE"] = F(100)

\* ------------------------------------------------------------------------
\* C10: within a batch the percentile of a field does not decrease with
\* the value: value(a) <= value(b) implies percentile(a) <= percentile(b),
\* equal values have equal percentiles, and every percentile is in (0, 100].
\* ------------------------------------------------------------------------
Monotone(value, pct) ==
    \A a, b \in 1..NRows :
        /\ FLeq(df.rows[a][value], df.rows[b][value])
              => FLeq(df.rows[a][pct], df.rows[b][pct])
        /\ df.rows[a][value] = df.rows[b][value] => df.rows[a][pct] = df.rows[b][pct]
        /\ FLt(F(0), df.rows[a][pct])
        /\ FLeq(df.rows[a][pct], F(100))

C10_PercentileMonotone ==
    Succeeded =>
        /\ Monotone("TAXBLEAMT", "REVENUE_PERCENTILE")
        /\ Monotone("QTY", "QTY_PERCENTILE")

C10_Witness ==
    /\ Succeeded
    /\ NRows = 2
    /\ FLt(df.rows[1]["TAXBLEAMT"], df.rows[2]["TAXBLEAMT"])
    /\ FLt(df.rows[1]["REVENUE_PERCENTILE"], df.rows[2]["REVENUE_PERCENTILE"])
    /\ df.rows[1]["QTY"] = df.rows[2]["QTY"]
    /\ df.rows[1]["QTY_PERCENTILE"] = F(75)

\* ------------------------------------------------------------------------
\* C11: the product name of a row is trimmed before it is looked up, as the
\* catalog entries are: a row whose trimmed name is a catalog entry gets a
\* company that lists that entry, never "Other".
\* ------------------------------------------------------------------------
C11_PaddedNameClassified ==
    Succeeded =>
        \A i \in 1..NRows :
            LET name == strip(InputValue(i, "ITNAME"))
            IN ListedUnder(name) # {} => df.rows[i]["COMPANY"] \in ListedUnder(name)

\* ------------------------------------------------------------------------
\* C12: the reverse index holds every product name some company lists; a
\* name listed by several companies maps to the one loaded last, a name
\* listed once maps to its only company.
\* ------------------------------------------------------------------------
Listings(name) ==
    {k \in 1..Len(COMPANY_PRODUCTS) : name \in Range(COMPANY_PRODUCTS[k].products)}

LastListing(name) == CHOOSE k \in Listings(name) : \A j \in Listings(name) : j <= k

C12_LastRegisteredWins ==
    /\ DOMAIN PRODUCT_TO_COMPANY =
          UNION {Range(COMPANY_PRODUCTS[k].products) : k \in 1..Len(COMPANY_PRODUCTS)}
    /\ \A name \in DOMAIN PRODUCT_TO_COMPANY :
          /\ PRODUCT_TO_COMPANY[name] = COMPANY_PRODUCTS[LastListing(name)].company
          /\ Cardinality(Listings(name)) = 1 => ListedUnder(name) = {PRODUCT_TO_COMPANY[name]}

C12_Witness ==
    /\ Succeeded
    /\ Cardinality(ListedUnder(Amistar)) = 2
    /\ COMPANY_PRODUCTS[Len(COMPANY_PRODUCTS)].company = "Sairam"
    /\ PRODUCT_TO_COMPANY[Amistar] = "Sairam"
    /\ \E i \in 1..NRows :
          df.rows[i]["ITNAME"] = Amistar /\ df.rows[i]["COMPANY"] = "Sairam"

\* ------------------------------------------------------------------------
\* C13: every row of a processed batch has tax amount = taxable amount *
\* rate / 100 and total with tax = taxable amount + tax amount; the batch
\* keeps its rows and each row its raw fields; 600 at 18 gives 108 and 708.
\* ------------------------------------------------------------------------
C13_TaxAmounts ==
    Succeeded =>
        /\ NRows = Len(json_data.rows)
        /\ \A i \in 1..NRows :
              LET amount == InputValue(i, "TAXBLEAMT")
                  rate == InputValue(i, "GST")
                  tax == df.rows[i]["GST_AMOUNT"]
              IN /\ tax = FDiv(FMul(amount, rate), F(100))
                 /\ df.rows[i]["TOTAL_WITH_GST"] = FAdd(amount, tax)
                 /\ \A c \in InputColumns : df.rows[i][c] = InputValue(i, c)
                 /\ (amount = F(600) /\ rate = F(18)) =>
                       (tax = F(108) /\ df.rows[i]["TOTAL_WITH_GST"] = F(708))

C13_Witness ==
    /\ Succeeded
    /\ NRows = 2
    /\ df.rows[1]["TAXBLEAMT"] = F(600)
    /\ df.rows[1]["GST"] = F(18)
    /\ df.rows[1]["GST_AMOUNT"] = F(108)
    /\ df.rows[1]["TOTAL_WITH_GST"] = F(708)
    /\ df.rows[2]["GST_AMOUNT"] = <<1, 40>>

\* ------------------------------------------------------------------------
\* C14: the company summary has one row for each company value the
\* classified rows hold ("Other" included) and no other row, so none for a
\* catalog company without rows; a row's product count is the number of rows
\* classified to its company.
\* ------------------------------------------------------------------------
PresentCompanies == {df.rows[i]["COMPANY"] : i \in 1..NRows}

C14_OneRowPerPresentCompany ==
    Succeeded =>
        /\ {company_summary[k].COMPANY : k \in 1..Len(company_summary)} = PresentCompanies
        /\ Len(company_summary) = Cardinality(PresentCompanies)
        /\ \A k \in 1..Len(company_summary) :
              company_summary[k].Product_Count =
                  Cardinality({i \in 1..NRows :
                                  df.rows[i]["COMPANY"] = company_summary[k].COMPANY})

C14_Witness ==
    /\ Succeeded
    /\ PresentCompanies = {"Other", "Sairam"}
    /\ "Adama" \in CatalogCompanies
    /\ Len(company_summary) = 2
    /\ \E k \in 1..2 : company_summary[k].COMPANY = "Other"

\* ------------------------------------------------------------------------
\* C15: the company summary is in descending order of total revenue, rows
\* of equal revenue in ascending order of company name, and its first row
\* holds the greatest revenue.
\* ------------------------------------------------------------------------
NameBefore(a, b) ==
    \E i, j \in 1..Len(CompanyOrder) : i < j /\ CompanyOrder[i] = a /\ CompanyOrder[j] = b

FirstAttaining(key, v) == CHOOSE i \in 1..NRows :
    df.rows[i][key] = v /\ \A j \in 1..(i - 1) : df.rows[j][key] # v

\* the rows of df in descending (ascending) order of the key, rows of equal
\* key in row order, rows without a value last
StableOrder(key, ascending) ==
    LET rows == with_index(df.rows)
    IN (IF ascending THEN SortAsc(<<>>, dropna(rows, key), key)
                     ELSE SortDesc(<<>>, dropna(rows, key), key)) \o isna(rows, key)

KeepsRowOrder(list, key, ascending) ==
    list = select(head(StableOrder(key, ascending), Len(list)), DOMAIN list[1] \ {"index"})

StockDone == pc = "stock_done"

\* the index labels of the rows a list holds
Listed(list) == {list[k]["index"] : k \in 1..Len(list)}

\* the rows that moved out: outward > 0
Moved == {i \in 1..NRows : FLt(F(0), df.rows[i]["OUTWARD"])}

Min(a, b) == IF a < b THEN a ELSE b

\* ------------------------------------------------------------------------
\* C17: the fast movers are the top_n rows by outward quantity; the slow
\* movers are taken among all the rows with outward > 0: no row with
\* outward = 0 is a slow mover, and every row with outward > 0 whose
\* turnover ratio is among the top_n smallest of such rows is one.
\* ------------------------------------------------------------------------
C17_MoversSelection ==
    StockDone =>
        /\ Listed(result.fast_movers) \subseteq Moved
        /\ Len(result.fast_movers) = Min(top_n, Cardinality(Moved))
        /\ Cardinality(Listed(result.fast_movers)) = Len(result.fast_movers)
        /\ \A i \in Listed(result.fast_movers) : \A j \in Moved \ Listed(result.fast_movers) :
              FLeq(df.rows[j]["OUTWARD"], df.rows[i]["OUTWARD"])
        /\ Listed(result.slow_movers) \subseteq Moved
        /\ \A i \in Moved :
              Cardinality({j \in Moved : FLeq(df.rows[j]["TURNOVER_RATIO"],
                                              df.rows[i]["TURNOVER_RATIO"])}) <= top_n
                 => i \in Listed(result.slow_movers)

\* ------------------------------------------------------------------------
\* C18: the stock status of a row is decided by its closing stock alone,
\* and is exactly one of: Out of Stock (closing <= 0), Low Stock (1 to 5),
\* Medium Stock (6 to 20), Good Stock (21 to 50), High Stock (above 50);
\* closing -3 is Out of Stock and closing 5 is Low Stock.
\* ------------------------------------------------------------------------
Between(lo, v, hi) == FLeq(F(lo), v) /\ FLeq(v, F(hi))

C18_StockStatusBands ==
    StockDone =>
        \A i \in 1..NRows :
            LET closing == json_data.rows[i]["CLST"]
                status == df.rows[i]["STOCK_STATUS"]
            IN /\ status \in {"Out of Stock", "Low Stock", "Medium Stock",
                              "Good Stock", "High Stock"}
               /\ status = "Out of Stock" <=> FLeq(closing, F(0))
               /\ status = "Low Stock" <=> Between(1, closing, 5)
               /\ status = "Medium Stock" <=> Between(6, closing, 20)
               /\ status = "Good Stock" <=> Between(21, closing, 50)
               /\ status = "High Stock" <=> FLt(F(50), closing)
               /\ \A j \in 1..NRows :
                     json_data.rows[j]["CLST"] = closing => df.rows[j]["STOCK_STATUS"] = status

C18_Witness ==
    /\ StockDone
    /\ NRows = 2
    /\ json_data.rows[1]["CLST"] = F(-3)
    /\ df.rows[1]["STOCK_STATUS"] = "Out of Stock"
    /\ json_data.rows[2]["CLST"] = F(5)
    /\ df.rows[2]["STOCK_STATUS"] = "Low Stock"

\* ------------------------------------------------------------------------
\* C19: a row has the negative-stock flag iff its closing stock is below 0,
\* the dead-stock flag iff inward = 0, outward = 0 and closing stock > 0,
\* the overstocked flag iff closing stock > 100 and turnover ratio < 30; the
\* row (opening 0, inward 0, outward 0, closing 5) is dead stock with
\* movement "No Movement".
\* ------------------------------------------------------------------------
C19_StockFlags ==
    StockDone =>
        \A i \in 1..NRows :
            LET row == json_data.rows[i]
                out == df.rows[i]
            IN /\ out["HAS_NEGATIVE_STOCK"] <=> FLt(row["CLST"], F(0))
               /\ out["IS_DEAD_STOCK"] <=>
                     (row["INWARD"] = F(0) /\ row["OUTWARD"] = F(0) /\ FLt(F(0), row["CLST"]))
               /\ out["IS_OVERSTOCKED"] <=>
                     (FLt(F(100), row["CLST"]) /\ FLt(out["TURNOVER_RATIO"], F(30)))
               /\ (row["OPST"] = F(0) /\ row["INWARD"] = F(0)
                      /\ row["OUTWARD"] = F(0) /\ row["CLST"] = F(5))
                     => (out["IS_DEAD_STOCK"] /\ out["MOVEMENT_TYPE"] = "No Movement")

C19_Witness ==
    /\ StockDone
    /\ NRows = 2
    /\ json_data.rows[1]["OPST"] = F(0)
    /\ json_data.rows[1]["INWARD"] = F(0)
    /\ json_data.rows[1]["OUTWARD"] = F(0)
    /\ json_data.rows[1]["CLST"] = F(5)
    /\ df.rows[1]["IS_DEAD_STOCK"]
    /\ df.rows[1]["MOVEMENT_TYPE"] = "No Movement"
    /\ df.rows[2]["IS_OVERSTOCKED"]
    /\ ~df.rows[2]["IS_DEAD_STOCK"]
    /\ ~df.rows[2]["HAS_NEGATIVE_STOCK"]

\* ------------------------------------------------------------------------
\* C20: the movement category of a row is exactly one of: No Movement
\* (outward = 0), and for the other rows Fast Moving (turnover ratio >= 70),
\* Medium Moving (>= 40 and < 70), Slow Moving (< 40).
\* ------------------------------------------------------------------------
C20_MovementBands ==
    StockDone =>
        \A i \in 1..NRows :
            LET outward == json_data.rows[i]["OUTWARD"]
                turnover == df.rows[i]["TURNOVER_RATIO"]
                movement == df.rows[i]["MOVEMENT_TYPE"]
            IN /\ movement \in {"No Movement", "Fast Moving", "Medium Moving", "Slow Moving"}
               /\ movement = "No Movement" <=> outward = F(0)
               /\ outward # F(0) =>
                     /\ movement = "Fast Moving" <=> FLeq(F(70), turnover)
                     /\ movement = "Medium Moving" <=>
                           (FLeq(F(40), turnover) /\ FLt(turnover, F(70)))
                     /\ movement = "Slow Moving" <=> FLt(turnover, F(40))

C20_Witness ==
    /\ StockDone
    /\ NRows = 2
    /\ df.rows[1]["TURNOVER_RATIO"] = F(70)
    /\ df.rows[1]["MOVEMENT_TYPE"] = "Fast Moving"
    /\ df.rows[2]["TURNOVER_RATIO"] = F(40)
    /\ df.rows[2]["MOVEMENT_TYPE"] = "Medium Moving"

\* ------------------------------------------------------------------------
\* C21: the turnover ratio of a stock row is outward / total * 100 when
\* total > 0 and 0 when total <= 0; no row is left with the outcome of a
\* division by zero (inf or NaN), and the analysis completes.
\* ------------------------------------------------------------------------
C21_TurnoverRatio ==
    StockDone =>
        /\ result.success
        /\ \A i \in 1..NRows :
              LET outward == json_data.rows[i]["OUTWARD"]
                  total == json_data.rows[i]["TOTAL"]
                  ratio == df.rows[i]["TURNOVER_RATIO"]
              IN /\ IsFinite(ratio)
                 /\ FLt(F(0), total) => ratio = FMul(FDiv(outward, total), F(100))
                 /\ FLeq(total, F(0)) => ratio = F(0)

C21_Witness ==
    /\ StockDone
    /\ NRows = 2
    /\ json_data.rows[1]["TOTAL"] = F(0)
    /\ df.rows[1]["TURNOVER_RATIO"] = F(0)
    /\ json_data.rows[2]["TOTAL"] = F(10)
    /\ json_data.rows[2]["OUTWARD"] = F(7)
    /\ df.rows[2]["TURNOVER_RATIO"] = F(70)

\* ------------------------------------------------------------------------
\* C28: the Stock_Availability_% of a company in the stock summary is the
\* share of that company's own products with closing stock > 0: it is
\* between 0 and 100 and the same whatever the other companies hold.
\* ------------------------------------------------------------------------
OwnRows(c) == {i \in 1..NRows : df.rows[i]["COMPANY"] = c}

OwnAvailability(c) ==
    Round2(FMul(FDiv(F(Cardinality({i \in OwnRows(c) : FLt(F(0), df.rows[i]["CLST"])})),
                     F(Cardinality(OwnRows(c)))), F(100)))

C28_AvailabilityOfCompanyAlone ==
    StockDone =>
        \A k \in 1..Len(company_summary) :
            LET rate == company_summary[k]["Stock_Availability_%"]
            IN /\ FLeq(F(0), rate)
               /\ FLeq(rate, F(100))
               /\ rate = OwnAvailability(company_summary[k].COMPANY)

\* ------------------------------------------------------------------------
\* C29: the negative_stock and out_of_stock lists share no row and hold,
\* together, exactly the rows whose status is "Out of Stock"; their sizes
\* add up to Products_Out_Of_Stock, negative_stock has
\* Products_With_Negative_Stock rows, and Products_In_Stock +
\* Products_Out_Of_Stock = Total_Products.
\* ------------------------------------------------------------------------
C29_OutOfStockPartition ==
    StockDone =>
        LET negative == result.problems.negative_stock
            out == result.problems.out_of_stock
        IN /\ Listed(negative) \cap Listed(out) = {}
           /\ Listed(negative) \cup Listed(out) =
                 {i \in 1..NRows : df.rows[i]["STOCK_STATUS"] = "Out of Stock"}
           /\ Cardinality(Listed(negative)) = Len(negative)
           /\ Cardinality(Listed(out)) = Len(out)
           /\ Len(negative) + Len(out) = result.overview.Products_Out_Of_Stock
           /\ Len(negative) = result.overview.Products_With_Negative_Stock
           /\ result.overview.Products_In_Stock + result.overview.Products_Out_Of_Stock
                 = result.overview.Total_Products

C29_Witness ==
    /\ StockDone
    /\ NRows = 2
    /\ Len(result.problems.negative_stock) = 1
    /\ Len(result.problems.out_of_stock) = 1
    /\ result.overview.Products_Out_Of_Stock = 2
    /\ result.overview.Products_In_Stock = 0

\* ------------------------------------------------------------------------
\* C22: every sales entry point renames the aliases NAMT and PER before
\* its core runs: a sheet with these column names gets the classification,
\* the derived metrics and the company summary of the same sheet with the
\* columns named TAXBLEAMT and GST.
\* ------------------------------------------------------------------------
\* the sheet of json_data with its columns under their own names
Canonical == rename_columns(DataFrame(json_data))

C22_AliasesNormalized ==
    /\ pc # "analysis_failed"
    /\ pc = "done" =>
          /\ result.success
          /\ df = calculate_advanced_metrics(categorize_by_company(Canonical, PRODUCT_TO_COMPANY))
          /\ company_summary \in generate_company_analysis(df)
    /\ pc = "performers" =>
          df = calculate_advanced_metrics(categorize_by_company(Canonical, PRODUCT_TO_COMPANY))
    /\ pc = "analysis" =>
          /\ Column(df, "COMPANY") =
                Column(categorize_by_company(Canonical, PRODUCT_TO_COMPANY), "COMPANY")
          /\ company_summary \in
                excel_company_summary(categorize_by_company(Canonical, PRODUCT_TO_COMPANY))

\* ------------------------------------------------------------------------
\* C24: a batch without rows is analysed to its fallback: a success result
\* with zero totals and an empty company summary, no error result.
\* ------------------------------------------------------------------------
C24_EmptyBatchFallback ==
    (pc = "done" /\ json_data.rows = <<>>) =>
        /\ result.success
        /\ result.summary.total_rows = 0
        /\ result.summary.total_revenue = F(0)
        /\ company_summary = <<>>

\* ------------------------------------------------------------------------
\* C27: a batch that has the required columns, with numbers in them, is
\* analysed with success: total_rows is the number of its rows and
\* total_revenue the sum of their taxable amounts, whether the product names
\* are in the catalog or not.
\* ------------------------------------------------------------------------
C27_SummaryTotals ==
    (pc = "done" /\ Range(required_cols) \subseteq InputColumns) =>
        /\ result.success
        /\ result.summary.total_rows = Len(json_data.rows)
        /\ result.summary.total_revenue =
              FSum([i \in 1..Len(json_data.rows) |-> InputValue(i, "TAXBLEAMT")])

C27_Witness ==
    /\ Succeeded
    /\ COMPANY_PRODUCTS # <<>>
    /\ NRows = 2
    /\ df.rows[1]["ITNAME"] = Unlisted
    /\ df.rows[1]["COMPANY"] = "Other"
    /\ df.rows[2]["COMPANY"] = "Adama"
    /\ result.summary.total_rows = 2
    /\ result.summary.total_revenue = F(1800)


\* ------------------------------------------------------------------------
\* analyze_data on batches with text in a numeric column
\* ------------------------------------------------------------------------
\* a cell of a numeric column that holds a text, as in {"QTY": "abc"}
TextCell == <<"abc">>

MalformedMeasurements ==
    {[name |-> nm, qty |-> q, amt |-> a, rate |-> r] :
        nm \in {Agas, Unlisted}, q \in {F(1), TextCell},
        a \in {F(600), TextCell}, r \in {F(18), TextCell}}

MalformedBatches ==
    {[keys |-> [i \in 1..Len(layout) |-> layout[i][1]],
      rows |-> [i \in 1..Len(ms) |-> JsonRecord(layout, ms[i])]] :
        layout \in {l \in Layouts : Len(l) = 4},
        ms \in SeqsUpTo(MalformedMeasurements, MaxRows)}

InitMalformed == Loaded(CatalogSources, MalformedBatches, {pdf_top_n})

SpecMalformed == InitMalformed /\ [][Next]_vars

\* the rows of the batch whose quantity, amount and rate are all numbers
WellFormedRows ==
    {i \in 1..Len(Canonical.rows) :
        \A c \in {"QTY", "TAXBLEAMT", "GST"} : IsNumber(Canonical.rows[i][c])}

\* C25: when a row of the batch holds a malformed value (a text as quantity)
\* and other rows are well formed, the analysis still succeeds and the
\* company summary aggregates the well-formed rows
C25_MalformedRowConfined ==
    (/\ pc = "done"
     /\ WellFormedRows # {}
     /\ \E i \in 1..Len(Canonical.rows) : ~IsNumber(Canonical.rows[i]["QTY"]))
        => /\ result.success
           /\ company_summary # <<>>

\* ------------------------------------------------------------------------
\* The serverless handler (analyze.py handler), called request after request
\* ------------------------------------------------------------------------
\* the most requests one behaviour of the handler serves
MaxCalls == 2

\* JSON values, each with its Python type
Null == [type |-> "null", value |-> <<>>]
JsonNumber(n) == [type |-> "number", value |-> n]
JsonString(t) == [type |-> "string", value |-> t]
JsonList(records) == [type |-> "list", value |-> records]
JsonDict(items) == [type |-> "dict", value |-> items]

\* a text that is no JSON document
NotJson == [text |-> [type |-> "invalid", value |-> <<>>]]

\* json.dumps(value): the text of the document
json_dumps(value) == [text |-> value]

\* json.loads(text): the value, or JSONDecodeError
json_loads(text) == [raised |-> text.text.type = "invalid", value |-> text.text]

\* text.encode('utf-8') and bytes.decode('utf-8')
encode(text) == [bytes |-> text]
decode(octets) == octets.bytes

\* base64.b64encode(pdf_bytes).decode('utf-8')
b64encode(octets) == [base64 |-> octets]

\* the first step of the try block: request.body as bytes, as str, or
\* already parsed by the platform
parse_body(content) ==
    CASE content.form = "bytes" -> json_loads(decode(content.value))
      [] content.form = "str" -> json_loads(content.value)
      [] OTHER -> [raised |-> FALSE, value |-> content.value]

\* `'data' in body` raises TypeError unless body is a container
is_container(value) == value.type \in {"dict", "list"}

\* `'data' in body`: a key of the dict; never an element of a list of records
has_data(value) == value.type = "dict" /\ "data" \in DOMAIN value.value

\* `not data`: None, an empty list, an empty dict, an empty text, zero
falsy(value) ==
    CASE value.type = "null" -> TRUE
      [] value.type = "list" -> value.value.rows = <<>>
      [] value.type = "dict" -> DOMAIN value.value = {}
      [] value.type = "string" -> value.value = ""
      [] OTHER -> value.value = 0

cors_headers ==
    [h \in {"Access-Control-Allow-Origin", "Access-Control-Allow-Methods",
            "Access-Control-Allow-Headers"} |->
        CASE h = "Access-Control-Allow-Origin" -> "*"
          [] h = "Access-Control-Allow-Methods" -> "POST, OPTIONS"
          [] OTHER -> "Content-Type"]

json_headers == [h \in {"Content-Type"} |-> "application/json"]

error_headers ==
    [h \in {"Content-Type", "Access-Control-Allow-Origin"} |->
        IF h = "Content-Type" THEN "application/json" ELSE "*"]

pdf_headers ==
    [h \in {"Content-Type", "Content-Disposition", "Access-Control-Allow-Origin"} |->
        CASE h = "Content-Type" -> "application/pdf"
          [] h = "Content-Disposition" -> "attachment"
          [] OTHER -> "*"]

\* a return of the handler that did not call analyze_data
answered(status, headers, content) ==
    [response |-> [statusCode |-> status, headers |-> headers, body |-> content],
     df |-> EmptyFrame, company_summary |-> <<>>, result |-> NoResult]

\* the possible outcomes of analyze_data(data) for any JSON value: a value
\* that is no list makes pd.DataFrame raise inside the try block
analyze_value(data, index) ==
    IF data.type = "list" THEN analysis(data.value, index)
    ELSE {[df |-> EmptyFrame, company_summary |-> <<>>,
           result |-> failure(<<"DataFrame constructor not properly called!">>)]}

\* a return after analyze_data that skips the success check: the result is
\* sent as it is, with status 200
after_analysis_unchecked(outcome) ==
    [df |-> outcome.df, company_summary |-> outcome.company_summary, result |-> outcome.result,
     response |-> [statusCode |-> 200, headers |-> error_headers,
                   body |-> json_dumps(outcome.result)]]

\* the return of the handler after analyze_data
after_analysis(outcome) ==
    [df |-> outcome.df, company_summary |-> outcome.company_summary, result |-> outcome.result,
     response |->
        IF ~outcome.result.success
        THEN [statusCode |-> 400, headers |-> error_headers,
              body |-> json_dumps([success |-> FALSE, error |-> outcome.result.error])]
        ELSE [statusCode |-> 200, headers |-> pdf_headers,
              body |-> b64encode(outcome.result.pdf_bytes),
              isBase64Encoded |-> TRUE]]

\* the possible outcomes of handler(request): the response, and what
\* analyze_data made when the handler called it
handle(req, index) ==
    IF req.method = "OPTIONS" THEN {answered(200, cors_headers, "")}
    ELSE IF req.method # "POST"
    THEN {answered(405, json_headers, json_dumps([error |-> "Method not allowed"]))}
    ELSE LET parsed == parse_body(req.body)
             content == parsed.value
             data == IF has_data(content) THEN content.value["data"]
                     ELSE IF content.type = "list" THEN content
                     ELSE Null
         IN IF parsed.raised
            THEN {answered(500, json_headers,
                           json_dumps([success |-> FALSE, error |-> "JSONDecodeError"]))}
            ELSE IF ~is_container(content)
            THEN {answered(500, json_headers,
                           json_dumps([success |-> FALSE, error |-> "TypeError"]))}
            ELSE IF falsy(data)
            THEN {answered(400, json_headers,
                           json_dumps([success |-> FALSE,
                                       error |-> "No data provided in request body"]))}
            ELSE {after_analysis(outcome) : outcome \in analyze_value(data, index)}

\* the index with every looked-up name that it lacks entered as 'Other'
\* (a lookup by PRODUCT_TO_COMPANY.setdefault)
map_setdefault(index, d) ==
    [nm \in (DOMAIN index) \cup {d.rows[i]["ITNAME"] : i \in 1..Len(d.rows)} |->
        IF nm \in DOMAIN index THEN index[nm] ELSE "Other"]

\* PRODUCT_TO_COMPANY after df['ITNAME'].map(PRODUCT_TO_COMPANY): Series.map
\* looks the names up and leaves the dict as it is
map_lookup(index, d) == index

\* the records the handler is sent: no record or one, of any layout, one of
\* them with a text as quantity
HandlerMeasurements ==
    {[name |-> nm, qty |-> q, amt |-> F(600), rate |-> F(18)] :
        nm \in {Agas, Unlisted}, q \in {F(1), TextCell}}

EmptyList == [keys |-> <<>>, rows |-> <<>>]

HandlerBatches ==
    {[keys |-> [i \in 1..Len(layout) |-> layout[i][1]],
      rows |-> <<JsonRecord(layout, m)>>] : layout \in Layouts, m \in HandlerMeasurements}

\* the shapes of the documents a request body holds; "list", "data list"
\* and "rows list" hold a batch
Shapes ==
    {"null", "number", "empty dict", "empty list", "data null", "data text",
     "data empty list", "list", "data list", "rows list"}

\* the document of a shape
Document(shape, batch) ==
    CASE shape = "null" -> Null
      [] shape = "number" -> JsonNumber(5)
      [] shape = "empty dict" -> JsonDict(<<>>)
      [] shape = "empty list" -> JsonList(EmptyList)
      [] shape = "data null" -> JsonDict([k \in {"data"} |-> Null])
      [] shape = "data text" -> JsonDict([k \in {"data"} |-> JsonString("abc")])
      [] shape = "data empty list" -> JsonDict([k \in {"data"} |-> JsonList(EmptyList)])
      [] shape = "list" -> JsonList(batch)
      [] shape = "data list" -> JsonDict([k \in {"data"} |-> JsonList(batch)])
      [] OTHER -> JsonDict([k \in {"rows"} |-> JsonList(batch)])

\* request.body: the document as the platform parsed it ("object"), its
\* text ("str") or the bytes of its text ("bytes"); a text may be no JSON
Body(form, shape, batch) ==
    CASE form = "object" -> [form |-> form, value |-> Document(shape, batch)]
      [] form = "str" ->
            [form |-> form,
             value |-> IF shape = "not json" THEN NotJson
                       ELSE json_dumps(Document(shape, batch))]
      [] OTHER ->
            [form |-> form,
             value |-> encode(IF shape = "not json" THEN NotJson
                              ELSE json_dumps(Document(shape, batch)))]

Methods == {"OPTIONS", "GET", "PUT", "POST"}

InitHandler == Loaded(CatalogSources, {EmptyList}, {pdf_top_n})

\* one call of handler(request)
handler ==
    /\ calls < MaxCalls
    /\ calls' = calls + 1
    /\ \E method \in Methods :
       \E form \in IF method = "POST" THEN {"object", "str", "bytes"} ELSE {"str"} :
       \E shape \in IF method # "POST" THEN {"null"}
                    ELSE IF form = "object" THEN Shapes ELSE Shapes \cup {"not json"} :
       \E batch \in IF shape \in {"list", "data list", "rows list"}
                    THEN HandlerBatches ELSE {EmptyList} :
       \E req \in {[method |-> method, body |-> Body(form, shape, batch)]} :
       \E outcome \in handle(req, PRODUCT_TO_COMPANY) :
          /\ request' = req
          /\ response' = outcome.response
          /\ df' = outcome.df
          /\ company_summary' = outcome.company_summary
          /\ result' = outcome.result
          /\ PRODUCT_TO_COMPANY' = map_lookup(PRODUCT_TO_COMPANY, outcome.df)
    /\ UNCHANGED <<COMPANY_PRODUCTS, json_data, top_n, pc, catalog_files, sort_ties, previous>>

NextHandler == handler

SpecHandler == InitHandler /\ [][NextHandler]_vars

\* the document of the request, when its body can be parsed
Parsed == parse_body(request.body).value

\* what the request passes to analyze_data, when it is a container
Data ==
    IF has_data(Parsed) THEN Parsed.value["data"]
    ELSE IF Parsed.type = "list" THEN Parsed ELSE Null

\* C30: the response of the handler is determined by the request: OPTIONS
\* gives 200 with the CORS headers and an empty body; another method than
\* POST gives 405; a POST whose body cannot be parsed, or is no container,
\* gives 500; a POST without data or with empty data gives 400; a POST whose
\* analysis fails gives 400 with the error of the analysis; and the response
\* is a 200 with the base64-encoded PDF exactly when analyze_data succeeded
C30_HandlerStatus ==
    calls > 0 =>
        /\ request.method = "OPTIONS" =>
              /\ response.statusCode = 200
              /\ response.headers = cors_headers
              /\ response.body = ""
        /\ request.method \notin {"OPTIONS", "POST"} => response.statusCode = 405
        /\ (request.method = "POST" /\ parse_body(request.body).raised) =>
              response.statusCode = 500
        /\ (request.method = "POST" /\ ~parse_body(request.body).raised) =>
              /\ ~is_container(Parsed) => response.statusCode = 500
              /\ (is_container(Parsed) /\ falsy(Data)) => response.statusCode = 400
              /\ (is_container(Parsed) /\ ~falsy(Data) /\ ~result.success) =>
                    /\ response.statusCode = 400
                    /\ response.body = json_dumps([success |-> FALSE, error |-> result.error])
        /\ result.success <=>
              /\ response.statusCode = 200
              /\ "isBase64Encoded" \in DOMAIN response
              /\ response.body = b64encode(result.pdf_bytes)

\* a request answered with the PDF after a request that was refused
C30_Witness ==
    /\ calls = 2
    /\ request.method = "POST"
    /\ response.statusCode = 200
    /\ result.success

\* C26: no step of a sequence of analysis invocations changes the catalog
\* or the reverse index: both keep the values they had after load
C26_CatalogNeverModified ==
    [][/\ COMPANY_PRODUCTS' = COMPANY_PRODUCTS
       /\ PRODUCT_TO_COMPANY' = PRODUCT_TO_COMPANY]_vars

\* two invocations served, the last one classified a product the catalog
\* lacks, and the catalog and the index are those of the load
C26_Witness ==
    /\ calls >= 2
    /\ result.success
    /\ \E i \in 1..Len(df.rows) : df.rows[i]["ITNAME"] \notin DOMAIN PRODUCT_TO_COMPANY
    /\ COMPANY_PRODUCTS = load_company_products_from_csv(catalog_files)
    /\ PRODUCT_TO_COMPANY = reverse_index(COMPANY_PRODUCTS)

\* ------------------------------------------------------------------------
\* The pipeline run twice on the same batch and the same catalog folder
\* ------------------------------------------------------------------------
\* a sort whose pivots depend on the run: the second run visits rows of
\* equal key in the opposite order
run_dependent_ties(earlier, chosen, first_run) ==
    IF first_run THEN chosen
    ELSE [groups |-> [i \in 1..Len(earlier.groups) |->
                         earlier.groups[Len(earlier.groups) + 1 - i]],
          rows |-> [i \in 1..Len(earlier.rows) |-> earlier.rows[Len(earlier.rows) + 1 - i]]]

\* the order in which the sorts of a run visit rows of equal key.  numpy's
\* quicksort picks its pivots by position: it may put tied rows in any order,
\* but sorting the same array again puts them in the same order
quicksort_ties(earlier, chosen, first_run) == IF first_run THEN chosen ELSE earlier

\* the order of the first n positions within an order of more
restricted(ties, n) == SelectSeq(ties, LAMBDA x : x <= n)

\* of the outcomes of analyze_data, the one of a sort that visits the
\* companies in the order `ties`
analysis_sorted(data, index, ties) ==
    CHOOSE outcome \in analysis(data, index) :
        outcome.result.success =>
            outcome.company_summary =
                sort_values(company_shares(outcome.df), "Total_Revenue", FALSE,
                            restricted(ties, Len(company_shares(outcome.df))))

TwiceMeasurements ==
    {m \in Measurements : m.name # AgasPadded /\ m.qty = F(1)}
        \cup {[name |-> Unlisted, qty |-> F(0), amt |-> F(0), rate |-> F(5)]}

\* batches of the sales pipeline, with rows and companies of equal revenue
TwiceBatches ==
    {[keys |-> [i \in 1..Len(layout) |-> layout[i][1]],
      rows |-> [i \in 1..Len(ms) |-> JsonRecord(layout, ms[i])]] :
        layout \in {l \in Layouts : Len(l) = 2 \/ l[3][1] = "TAXBLEAMT"},
        ms \in SeqsUpTo(TwiceMeasurements, MaxRows)}

\* sheets of the stock pipeline, with rows and companies of equal closing stock
TwiceSheets ==
    {[keys |-> <<"ITNAME", "OPST", "INWARD", "TOTAL", "OUTWARD", "CLST">>,
      rows |-> [i \in 1..Len(ls) |-> StockRecord(ls[i])]] :
        ls \in SeqsUpTo({l \in StockLines : l.clst \in {-3, 0, 5}}, MaxRows) \ {<<>>}}

InitTwice == Loaded(CatalogSources, TwiceBatches \cup TwiceSheets, {stock_top_n})

is_stock_sheet(data) == "CLST" \in Range(data.keys)

\* one run of the sales pipeline: the module is loaded (the catalog read
\* from its folder), then analyze_data is called with the batch
\* the orders the sorts of a first run may visit tied companies and tied
\* rows in (analyze_data sorts no rows); a second run has no choice left
FreshTies(groups, rows, first_run) ==
    IF first_run THEN [groups : RowOrders(groups), rows : RowOrders(rows)] ELSE {NoTies}

run_analyze_data ==
    /\ pc \in {"loaded", "ran_once"}
    /\ ~is_stock_sheet(json_data)
    /\ pc' = IF pc = "loaded" THEN "ran_once" ELSE "ran_twice"
    /\ \E chosen \in FreshTies(Len(json_data.rows), 0, pc = "loaded") :
       \E ties \in {quicksort_ties(sort_ties, chosen, pc = "loaded")} :
       \E catalog \in {load_company_products_from_csv(catalog_files)} :
       \E outcome \in {analysis_sorted(json_data, reverse_index(catalog), ties.groups)} :
          /\ COMPANY_PRODUCTS' = catalog
          /\ PRODUCT_TO_COMPANY' = reverse_index(catalog)
          /\ sort_ties' = ties
          /\ df' = outcome.df
          /\ company_summary' = outcome.company_summary
          /\ result' = outcome.result
    /\ previous' = [company_summary |-> company_summary, result |-> result]
    /\ UNCHANGED <<json_data, top_n, catalog_files, request, response, calls>>

\* one run of the stock pipeline: the module is loaded, then
\* process_stock_file reads the sheet
run_process_stock_file ==
    /\ pc \in {"loaded", "ran_once"}
    /\ is_stock_sheet(json_data)
    /\ pc' = IF pc = "loaded" THEN "ran_once" ELSE "ran_twice"
    /\ \E chosen \in FreshTies(Len(json_data.rows), Len(json_data.rows), pc = "loaded") :
       \E ties \in {quicksort_ties(sort_ties, chosen, pc = "loaded")} :
       \E catalog \in {load_company_products_from_csv(catalog_files)} :
       \E derived \in {calculate_stock_metrics(
                          categorize_by_company(DataFrame(json_data), reverse_index(catalog)))} :
       \E rates \in {company_stock_rates(derived)} :
          /\ COMPANY_PRODUCTS' = catalog
          /\ PRODUCT_TO_COMPANY' = reverse_index(catalog)
          /\ sort_ties' = ties
          /\ df' = derived
          /\ company_summary' = sort_values(rates, "Closing_Stock", FALSE,
                                            restricted(ties.groups, Len(rates)))
          /\ result' = [success |-> TRUE,
                        overview |-> generate_stock_overview(derived),
                        fast_movers |-> identify_fast_movers(derived, top_n, ties.rows),
                        slow_movers |-> identify_slow_movers(derived, top_n, ties.rows),
                        dead_stock |-> identify_dead_stock(derived, ties.rows),
                        problems |-> identify_problem_areas(derived, ties.rows)]
    /\ previous' = [company_summary |-> company_summary, result |-> result]
    /\ UNCHANGED <<json_data, top_n, catalog_files, request, response, calls>>

NextTwice == run_analyze_data \/ run_process_stock_file

SpecTwice == InitTwice /\ [][NextTwice]_vars

TiedCompanies ==
    \E i, j \in 1..Len(company_summary) :
        /\ i # j
        /\ IF is_stock_sheet(json_data)
           THEN company_summary[i].Closing_Stock = company_summary[j].Closing_Stock
           ELSE company_summary[i].Total_Revenue = company_summary[j].Total_Revenue

====
